---- MODULE Spec2Model ----
(***************************************************************************)
(* Model of the native-call inlining engine of the Ion compiler            *)
(* (js/src/jit/MCallOptimize.cpp).  One invocation of an entry point        *)
(* (inlineNativeCall, inlineNativeGetter, inlineNonFunctionCall) is one    *)
(* action: it runs the selected specializer on a call site and leaves the  *)
(* resulting block, value stack, dead-call marks and status in the state.  *)
(***************************************************************************)
EXTENDS Integers, Sequences, FiniteSets, TLC

\* ------------------------------------------------------------------ bounds

\* Largest argument count of an enumerated call site.
MaxArgc == 4
\* The fallible step (allocation, resume point, stub creation) that fails
\* in a run: 0 = none, k = the k-th one.
MaxFailAt == 3
\* Depth of the value stack when the engine is entered.
MaxEntryDepth == 1
\* Largest number of (array, index, value) groups passed to UnsafePutElements.
MaxGroups == 2

VARIABLES
    inlineNative,   \* optimizationInfo().inlineNative(), the global switch
    executionMode,  \* info().executionMode()
    nodes,          \* instructions of the current block, in order
    stack,          \* value stack of the current block
    marks,          \* setImplicitlyUsedUnchecked counts on callee/this/args
    log,            \* order of the effects of the last run
    status,         \* InliningStatus of the last run, "None" before any run
    why,            \* the check or step that decided the status
    callee,         \* the native (or hook) the engine was invoked for
    callInfo,       \* the call site handed to the engine
    env,            \* what the builder knows at this pc (types, templates)
    entryNodes,     \* Len(nodes) when the engine was entered
    entryDepth,     \* Len(stack) when the engine was entered
    persisted,      \* type constraints and type-set additions left behind
    reentryNodes,   \* Len(nodes) when the engine was entered again, -1 before
    decoder,        \* the MediaDecoder: its members and the calls it made
    lastCall        \* the MediaDecoder method that ran last, with its arguments

vars == <<inlineNative, executionMode, nodes, stack, marks, log, status, why,
          callee, callInfo, env, entryNodes, entryDepth, persisted, reentryNodes,
          decoder, lastCall>>

\* ------------------------------------------------------------- MIR types

IsNumberType(t) == t \in {"Int32", "Double", "Float32"}

IsFloatingPointType(t) == t \in {"Double", "Float32"}

\* A numeric constant is num (+ 1/2 when half): 0.5 is (0, TRUE), -0.5 is
\* (-1, TRUE).
INT32_MAX == 2147483647

INT32_MIN == (-2147483647) - 1

\* An MDefinition used as a call operand: its MIRType, whether it is an
\* MConstant (and its value), and what its result type-set says.
Operand(t) ==
    [type |-> t, isConstant |-> FALSE, num |-> 0, half |-> FALSE, str |-> <<>>, isLinear |-> TRUE,
     hasTypes |-> TRUE, knownClass |-> "none", flags |-> {}, mayBe |-> {},
     forAll |-> "MIXED", typedArrayType |-> "TypeMax", sharedType |-> "TypeMax",
     access |-> "none", writeBarrier |-> FALSE, conversion |-> "DontConvertToDoubles",
     objects |-> <<>>, postBarrier |-> FALSE]

\* One entry of a type-set's object list: a TypeObjectKey (or a null slot)
\* with the type-set of its elements (the JSID_VOID property).
ObjectType(isNull, unknown, elems) ==
    [isNull |-> isNull, unknownProperties |-> unknown, elemTypes |-> elems]

\* MDefinition::mightBeType(type): a boxed value may be what its type-set holds
mightBeType(d, t) == d.type = t \/ (d.type = "Value" /\ t \in d.mayBe)

\* CallInfo: constructing flag, this value, arguments (argc = Len(args)).
CallInfo(ctor, this, args) ==
    [constructing |-> ctor, thisArg |-> this, args |-> args, argc |-> Len(args)]

\* What the builder reads at this pc besides the call site.
DefaultEnv ==
    [returnType |-> "Value", returnTypesEmpty |-> FALSE, returnHasThisType |-> TRUE,
     returnObjectCount |-> 1, returnDoubleConversion |-> "DontConvertToDoubles",
     resultEscapes |-> TRUE, isPopped |-> FALSE, protoIndexed |-> FALSE,
     readBarrier |-> FALSE, template |-> "none", templateLength |-> 0,
     templateElemTypes |-> {}, templateUnknownProps |-> FALSE,
     templateHasElemTypes |-> TRUE, tenured |-> FALSE,
     allowForkJoinGetSlice |-> TRUE, inliningDepth |-> 0, outerConstructing |-> FALSE,
     isLengthGetter |-> "none", constructHook |-> "other", descrTooBig |-> FALSE,
     boundTarget |-> "function", boundTargetCtor |-> TRUE, boundTargetNursery |-> FALSE,
     boundArgs |-> <<>>, boundArgCount |-> 0, boundThis |-> "primitive", failAt |-> 0]

\* ------------------------------------------------------- the block builder

NoMarks == [fun |-> 0, this |-> 0, args |-> 0]

\* The IonBuilder during one run: the current block and what it has done.
Builder(ns, st, on, mode, e) ==
    [nodes |-> ns, stack |-> st, marks |-> NoMarks, log |-> <<>>, nfall |-> 0,
     status |-> "None", why |-> "none", inlineNative |-> on, executionMode |-> mode,
     env |-> e, persisted |-> {}]

ArgRef(i) == [k |-> "arg", i |-> i]

ThisRef == [k |-> "this", i |-> 0]

NodeRef(i) == [k |-> "node", i |-> i]

\* current->add(ins)
add(b, op, ins) ==
    [b EXCEPT !.nodes = Append(@, [op |-> op, ins |-> ins, rp |-> 0, type |-> "None"]),
              !.log = Append(@, "add")]

\* current->add(ins) of an instruction built with an explicit result type
addTyped(b, op, ins, type) ==
    LET b1 == add(b, op, ins)
    IN  [b1 EXCEPT !.nodes[Len(b1.nodes)].type = type]

\* The instruction added last.
last(b) == NodeRef(Len(b.nodes))

\* current->push(def)
push(b, v) == [b EXCEPT !.stack = Append(@, v), !.log = Append(@, "push")]

\* current->add(ins); current->push(ins)
addPush(b, op, ins) == push(add(b, op, ins), NodeRef(Len(b.nodes) + 1))

\* callInfo.setImplicitlyUsedUnchecked(): callee, this and every argument.
setImplicitlyUsedUnchecked(b) ==
    [b EXCEPT !.marks = [fun |-> @.fun + 1, this |-> @.this + 1, args |-> @.args + 1],
              !.log = Append(@, "dead")]

\* callInfo.fun()->setImplicitlyUsedUnchecked() and/or thisArg()-> alone.
markOnly(b, parts) ==
    [b EXCEPT !.marks = [p \in {"fun", "this", "args"} |->
                            IF p \in parts THEN @[p] + 1 ELSE @[p]],
              !.log = Append(@, "dead")]

\* Entering a for loop that runs over the arguments of the call site.
argLoop(b) == [b EXCEPT !.log = Append(@, "argloop")]

\* A step that can fail (out of memory, invalid graph): it counts itself.
fallible(b) == [b EXCEPT !.nfall = @ + 1]

failed(b) == b.env.failAt # 0 /\ b.nfall = b.env.failAt

\* return InliningStatus_...
Ret(b, st, reason) == [b EXCEPT !.status = st, !.why = reason]

NotInlined(b, reason) == Ret(b, "NotInlined", reason)

Inlined(b) == Ret(b, "Inlined", "ok")

Error(b, reason) == Ret(b, "Error", reason)

\* callInfo.getArg(i), i counted from 0 as in the source
getArg(ci, i) == ci.args[i + 1]

\* Instructions whose isEffectful() is true (they write memory the
\* interpreter can observe).
Effectful(op) ==
    op \in {"MStoreElement", "MStoreFixedSlot", "MSetInitializedLength",
            "MArrayPush", "MArrayPopShift", "MArrayConcat", "MArraySplice",
            "MRegExpExec", "MRegExpTest", "MRegExpReplace",
            "MStoreTypedArrayElement", "MCompareExchangeTypedArrayElement",
            "MAtomicTypedArrayElementBinop", "MSetTypedObjectOffset",
            "MStoreTypedObjectElement", "MNewStringObject", "MCall"}

\* resumeAfter(ins): attaches a resume point to instruction i; can fail.
resumeAfter(b, i) ==
    LET b1 == fallible(b)
    IN  IF failed(b1) THEN b1
        ELSE [b1 EXCEPT !.nodes[i].rp = @ + 1, !.log = Append(@, "resume")]

\* The value of an MConstant, carried as its operand: a number, or the
\* boolean or undefined value named by k.
ConstVal(n) == [k |-> "const", i |-> n]

BooleanValue(v) == [k |-> IF v THEN "true" ELSE "false", i |-> 0]

UndefinedValue == [k |-> "undefined", i |-> 0]

\* A Class pointer given to an instruction (k = "null" for nullptr).
ClassRef(c) == [k |-> c, i |-> -1]

\* pushConstant(v): an MConstant is added and pushed.
pushConstant(b, v) == addPush(b, "MConstant", <<v>>)

\* pushTypeBarrier(def, observed, kind): def is the stack top; it is popped
\* and the barrier (def itself when no barrier is needed) pushed; can fail.
pushTypeBarrier(b, needsBarrier) ==
    LET b1 == fallible(b)
        top == b1.stack[Len(b1.stack)]
        popped == [b1 EXCEPT !.stack = SubSeq(@, 1, Len(@) - 1)]
    IN  IF failed(b1) THEN popped
        ELSE IF needsBarrier THEN addPush(popped, "MTypeBarrier", <<top>>)
        ELSE push(popped, top)

\* addMaybeCopyElementsForWrite(obj): a copy instruction when the object may
\* have copy-on-write elements; gives the builder and the object to write.
addMaybeCopyElementsForWrite(b, obj, ref) ==
    IF "COPY_ON_WRITE" \in obj.flags
    THEN [b |-> add(b, "MMaybeCopyElementsForWrite", <<ref>>), obj |-> NodeRef(Len(b.nodes) + 1)]
    ELSE [b |-> b, obj |-> ref]

\* key.freeze(constraints()), returned->addType(...), templateObject->set...:
\* effects that outlive the run.
persist(b, what) == [b EXCEPT !.persisted = @ \cup {what}]

\* TypeSetIncludes(types, value->type(), value->resultTypeSet())
TypeSetIncludes(types, d) == d.type \in types

\* types->hasObjectFlags(constraints(), flags)
hasObjectFlags(d, flags) == d.flags \cap flags # {}

NELEMENTS_LIMIT == 268435456

EagerAllocationMaxLength == 2048

\* the store loop of inlineArray: one index constant, optional conversion and
\* post barrier, one element store per argument
RECURSIVE inlineArrayStores(_, _, _, _, _)
inlineArrayStores(b, ci, i, ins, elements) ==
    IF i >= ci.argc THEN b
    ELSE LET b1 == add(b, "MConstant", <<>>)
             id == last(b1)
             conv == b.env.returnDoubleConversion = "AlwaysConvertToDoubles"
             b2 == IF conv THEN add(b1, "MToDouble", <<ArgRef(i)>>) ELSE b1
             value == IF conv THEN last(b2) ELSE ArgRef(i)
             b3 == IF b.env.tenured THEN add(b2, "MPostWriteBarrier", <<ins, value>>) ELSE b2
             b4 == add(b3, "MStoreElement", <<elements, id, value>>)
         IN  inlineArrayStores(b4, ci, i + 1, ins, elements)

\* inlineArray without the test against large allocations
inlineArrayLargeAllocations(b, ci) ==
    LET arg == getArg(ci, 0)
        initLength == IF ci.argc >= 2 THEN ci.argc ELSE IF ci.argc = 1 THEN arg.num ELSE 0
    IN
    IF b.env.template = "none" THEN NotInlined(b, "template")
    ELSE IF /\ ci.argc >= 2
            /\ ~b.env.templateUnknownProps
            /\ \E i \in 0..(ci.argc - 1) : ~TypeSetIncludes(b.env.templateElemTypes, getArg(ci, i))
    THEN NotInlined(persist(argLoop(b), "freeze"), "shape")
    ELSE IF ci.argc = 1 /\ arg.type # "Int32" THEN NotInlined(b, "type")
    ELSE IF ci.argc = 1 /\ ~arg.isConstant THEN NotInlined(b, "constant")
    \* a negative length read as uint32_t is 2^32 + n, above the limit
    ELSE IF ci.argc = 1 /\ (initLength < 0 \/ initLength >= NELEMENTS_LIMIT)
    THEN NotInlined(b, "range")
    ELSE IF ci.argc = 1 /\ initLength # b.env.templateLength THEN NotInlined(b, "template")
    ELSE
    LET b1 == setImplicitlyUsedUnchecked(
                  IF ci.argc >= 2 /\ ~b.env.templateUnknownProps THEN argLoop(b) ELSE b)
        b2 == persist(b1, IF b.env.returnDoubleConversion = "AlwaysConvertToDoubles"
                          THEN "setShouldConvertDoubleElements"
                          ELSE "clearShouldConvertDoubleElements")
        b3 == add(b2, "MConstant", <<>>)
        b4 == addPush(b3, "MNewArray", <<last(b3)>>)
        ins == last(b4)
    IN  IF ci.argc >= 2
        THEN LET b5 == add(b4, "MElements", <<ins>>)
                 b6 == inlineArrayStores(argLoop(b5), ci, 0, ins, last(b5))
                 b7 == add(b6, "MSetInitializedLength", <<last(b5), NodeRef(Len(b6.nodes))>>)
                 b8 == resumeAfter(b7, Len(b7.nodes))
             IN  IF failed(b8) THEN Error(b8, "fatal") ELSE Inlined(b8)
        ELSE Inlined(b4)


inlineArray(b, ci) ==
    LET arg == getArg(ci, 0)
        initLength == IF ci.argc >= 2 THEN ci.argc ELSE IF ci.argc = 1 THEN arg.num ELSE 0
    IN
    IF b.env.template = "none" THEN NotInlined(b, "template")
    ELSE IF /\ ci.argc >= 2
            /\ ~b.env.templateUnknownProps
            /\ \E i \in 0..(ci.argc - 1) : ~TypeSetIncludes(b.env.templateElemTypes, getArg(ci, i))
    THEN NotInlined(persist(argLoop(b), "freeze"), "shape")
    ELSE IF ci.argc = 1 /\ arg.type # "Int32" THEN NotInlined(b, "type")
    ELSE IF ci.argc = 1 /\ ~arg.isConstant THEN NotInlined(b, "constant")
    \* a negative length read as uint32_t is 2^32 + n, above the limit
    ELSE IF ci.argc = 1 /\ (initLength < 0 \/ initLength >= NELEMENTS_LIMIT)
    THEN NotInlined(b, "range")
    ELSE IF ci.argc = 1 /\ initLength # b.env.templateLength THEN NotInlined(b, "template")
    ELSE IF ci.argc = 1 /\ initLength > EagerAllocationMaxLength THEN NotInlined(b, "range")
    ELSE
    LET b1 == setImplicitlyUsedUnchecked(
                  IF ci.argc >= 2 /\ ~b.env.templateUnknownProps THEN argLoop(b) ELSE b)
        b2 == persist(b1, IF b.env.returnDoubleConversion = "AlwaysConvertToDoubles"
                          THEN "setShouldConvertDoubleElements"
                          ELSE "clearShouldConvertDoubleElements")
        b3 == add(b2, "MConstant", <<>>)
        b4 == addPush(b3, "MNewArray", <<last(b3)>>)
        ins == last(b4)
    IN  IF ci.argc >= 2
        THEN LET b5 == add(b4, "MElements", <<ins>>)
                 b6 == inlineArrayStores(argLoop(b5), ci, 0, ins, last(b5))
                 b7 == add(b6, "MSetInitializedLength", <<last(b5), NodeRef(Len(b6.nodes))>>)
                 b8 == resumeAfter(b7, Len(b7.nodes))
             IN  IF failed(b8) THEN Error(b8, "fatal") ELSE Inlined(b8)
        ELSE Inlined(b4)

\* Faulty variant: pop and shift forget that the array may be iterated.
UnhandledFlagsWithoutIterated == {"SPARSE_INDEXES", "LENGTH_OVERFLOW"}

\* unhandledFlags of inlineArrayPopShift
UnhandledFlagsPopShift == {"SPARSE_INDEXES", "LENGTH_OVERFLOW", "ITERATED"}

inlineArrayPopShift(b, ci, mode) ==
    LET obj == ci.thisArg
        returnType == b.env.returnType
    IN
    IF ci.constructing THEN NotInlined(b, "constructing")
    ELSE IF returnType \in {"Undefined", "Null"} THEN NotInlined(b, "returnType")
    ELSE IF obj.type # "Object" THEN NotInlined(b, "type")
    ELSE IF ~obj.hasTypes \/ obj.knownClass # "Array" THEN NotInlined(b, "shape")
    ELSE IF hasObjectFlags(obj, UnhandledFlagsPopShift) THEN NotInlined(b, "shape")
    ELSE IF b.env.protoIndexed THEN NotInlined(b, "shape")
    ELSE
    LET b1 == setImplicitlyUsedUnchecked(b)
        c == addMaybeCopyElementsForWrite(b1, obj, ThisRef)
        b2 == addPush(c.b, "MArrayPopShift", <<c.obj>>)
        b3 == resumeAfter(b2, Len(b2.nodes))
        b4 == pushTypeBarrier(b3, b.env.readBarrier)
    IN  IF failed(b3) THEN Error(b3, "fatal")
        ELSE IF failed(b4) THEN Error(b4, "fatal")
        ELSE Inlined(b4)

\* Faulty variant: the splice instruction is added before the result is
\* known to be unused.
inlineArraySpliceEmitFirst(b, ci) ==
    IF ci.argc # 2 \/ ci.constructing
    THEN NotInlined(b, IF ci.argc # 2 THEN "arity" ELSE "constructing")
    ELSE IF b.env.returnType # "Object" THEN NotInlined(b, "returnType")
    ELSE IF ci.thisArg.type # "Object" THEN NotInlined(b, "type")
    ELSE IF getArg(ci, 0).type # "Int32" THEN NotInlined(b, "type")
    ELSE IF getArg(ci, 1).type # "Int32" THEN NotInlined(b, "type")
    ELSE
    LET b1 == setImplicitlyUsedUnchecked(b)
        b2 == add(b1, "MArraySplice", <<ThisRef, ArgRef(0), ArgRef(1)>>)
        ins == Len(b2.nodes)
        b3 == pushConstant(b2, UndefinedValue)
        b4 == resumeAfter(b3, ins)
    IN  IF ~b.env.isPopped THEN NotInlined(b2, "popped")
        ELSE IF failed(b4) THEN Error(b4, "fatal") ELSE Inlined(b4)

inlineArraySplice(b, ci) ==
    IF ci.argc # 2 \/ ci.constructing
    THEN NotInlined(b, IF ci.argc # 2 THEN "arity" ELSE "constructing")
    ELSE IF b.env.returnType # "Object" THEN NotInlined(b, "returnType")
    ELSE IF ci.thisArg.type # "Object" THEN NotInlined(b, "type")
    ELSE IF getArg(ci, 0).type # "Int32" THEN NotInlined(b, "type")
    ELSE IF getArg(ci, 1).type # "Int32" THEN NotInlined(b, "type")
    ELSE
    LET b1 == setImplicitlyUsedUnchecked(b)
    IN  IF ~b.env.isPopped THEN NotInlined(b1, "popped")
        ELSE LET b2 == add(b1, "MArraySplice", <<ThisRef, ArgRef(0), ArgRef(1)>>)
                 ins == Len(b2.nodes)
                 b3 == pushConstant(b2, UndefinedValue)
                 b4 == resumeAfter(b3, ins)
             IN  IF failed(b4) THEN Error(b4, "fatal") ELSE Inlined(b4)

inlineArrayJoin(b, ci) ==
    IF ci.argc # 1 \/ ci.constructing
    THEN Error(b, IF ci.argc # 1 THEN "arity" ELSE "constructing")
    ELSE IF b.env.returnType # "String" THEN Error(b, "returnType")
    ELSE IF ci.thisArg.type # "Object" THEN Error(b, "type")
    ELSE IF getArg(ci, 0).type # "String" THEN Error(b, "type")
    ELSE Inlined(addPush(setImplicitlyUsedUnchecked(b), "MArrayJoin", <<ThisRef, ArgRef(0)>>))

inlineArrayPush(b, ci) ==
    LET obj == ci.thisArg
        value == getArg(ci, 0)
    IN
    IF ci.argc # 1 \/ ci.constructing
    THEN NotInlined(b, IF ci.argc # 1 THEN "arity" ELSE "constructing")
    ELSE IF value.writeBarrier THEN NotInlined(b, "shape")
    ELSE IF b.env.returnType # "Int32" THEN NotInlined(b, "returnType")
    ELSE IF obj.type # "Object" THEN NotInlined(b, "type")
    ELSE IF ~obj.hasTypes \/ obj.knownClass # "Array" THEN NotInlined(b, "shape")
    ELSE IF hasObjectFlags(obj, {"SPARSE_INDEXES", "LENGTH_OVERFLOW"}) THEN NotInlined(b, "shape")
    ELSE IF b.env.protoIndexed THEN NotInlined(b, "shape")
    ELSE IF obj.conversion = "AmbiguousDoubleConversion" THEN NotInlined(b, "shape")
    ELSE
    LET b1 == setImplicitlyUsedUnchecked(b)
        conv == obj.conversion \in {"AlwaysConvertToDoubles", "MaybeConvertToDoubles"}
        b2 == IF conv THEN add(b1, "MToDouble", <<ArgRef(0)>>) ELSE b1
        v == IF conv THEN last(b2) ELSE ArgRef(0)
        c == addMaybeCopyElementsForWrite(b2, obj, ThisRef)
        b3 == IF value.postBarrier THEN add(c.b, "MPostWriteBarrier", <<c.obj, v>>) ELSE c.b
        b4 == addPush(b3, "MArrayPush", <<c.obj, v>>)
        b5 == resumeAfter(b4, Len(b4.nodes))
    IN  IF failed(b5) THEN Error(b5, "fatal") ELSE Inlined(b5)

\* Faulty variant: the subset test is made the wrong way round.
inlineArrayConcatArgRejectedReversed(thisType, argObjects) ==
    \E i \in 1..Len(argObjects) :
        /\ ~argObjects[i].isNull
        /\ \/ argObjects[i].unknownProperties
           \/ ~(thisType.elemTypes \subseteq argObjects[i].elemTypes)

\* the loop of inlineArrayConcat over the argument's object types: null
\* slots are skipped, the others need known properties and
\* elemTypes.knownSubset(constraints(), thisElemTypes)
inlineArrayConcatArgRejected(thisType, argObjects) ==
    \E i \in 1..Len(argObjects) :
        /\ ~argObjects[i].isNull
        /\ \/ argObjects[i].unknownProperties
           \/ ~(argObjects[i].elemTypes \subseteq thisType.elemTypes)

inlineArrayConcat(b, ci) ==
    LET this == ci.thisArg
        arg == getArg(ci, 0)
    IN
    IF ci.argc # 1 \/ ci.constructing
    THEN NotInlined(b, IF ci.argc # 1 THEN "arity" ELSE "constructing")
    ELSE IF b.env.returnType # "Object" THEN NotInlined(b, "returnType")
    ELSE IF this.type # "Object" THEN NotInlined(b, "type")
    ELSE IF arg.type # "Object" THEN NotInlined(b, "type")
    ELSE IF ~this.hasTypes \/ ~arg.hasTypes THEN NotInlined(b, "shape")
    ELSE IF this.knownClass # "Array" THEN NotInlined(b, "shape")
    ELSE IF hasObjectFlags(this, {"SPARSE_INDEXES", "LENGTH_OVERFLOW"}) THEN NotInlined(b, "shape")
    ELSE IF arg.knownClass # "Array" THEN NotInlined(b, "shape")
    ELSE IF hasObjectFlags(arg, {"SPARSE_INDEXES", "LENGTH_OVERFLOW"}) THEN NotInlined(b, "shape")
    ELSE IF b.env.protoIndexed THEN NotInlined(b, "shape")
    ELSE IF Len(this.objects) # 1 THEN NotInlined(b, "shape")
    ELSE IF this.objects[1].isNull THEN NotInlined(b, "shape")
    ELSE IF this.objects[1].unknownProperties THEN NotInlined(b, "shape")
    ELSE IF ~hasObjectFlags(this, {"NON_PACKED"}) /\ hasObjectFlags(arg, {"NON_PACKED"})
    THEN NotInlined(b, "shape")
    ELSE IF ~b.env.returnHasThisType THEN NotInlined(b, "shape")
    ELSE IF inlineArrayConcatArgRejected(this.objects[1], arg.objects) THEN NotInlined(b, "shape")
    ELSE IF b.env.template # "match" THEN NotInlined(b, "template")
    ELSE
    LET b1 == setImplicitlyUsedUnchecked(b)
        b2 == addPush(b1, "MArrayConcat", <<ThisRef, ArgRef(0)>>)
        b3 == resumeAfter(b2, Len(b2.nodes))
    IN  IF failed(b3) THEN Error(b3, "fatal") ELSE Inlined(b3)

\* ------------------------------------------------------------ Math natives

inlineMathFunction(b, ci, function) ==
    IF ci.constructing THEN NotInlined(b, "constructing")
    ELSE IF ci.argc # 1 THEN NotInlined(b, "arity")
    ELSE IF b.env.returnType # "Double" THEN NotInlined(b, "returnType")
    ELSE IF ~IsNumberType(getArg(ci, 0).type) THEN NotInlined(b, "type")
    ELSE Inlined(addPush(markOnly(b, {"fun", "this"}), "MMathFunction", <<ArgRef(0)>>))

inlineMathAbs(b, ci) ==
    LET returnType == b.env.returnType
        argType == getArg(ci, 0).type
    IN
    IF ci.constructing THEN NotInlined(b, "constructing")
    ELSE IF ci.argc # 1 THEN NotInlined(b, "arity")
    ELSE IF ~IsNumberType(argType) THEN NotInlined(b, "type")
    ELSE IF /\ argType # returnType
            /\ ~(IsFloatingPointType(argType) /\ returnType = "Int32")
            /\ ~(argType = "Float32" /\ returnType = "Double")
    THEN NotInlined(b, "returnType")
    ELSE Inlined(addPush(setImplicitlyUsedUnchecked(b), "MAbs", <<ArgRef(0)>>))

\* inlineMathFloor taking any numeric argument for a Double result
inlineMathFloorAnyNumber(b, ci) ==
    LET argType == getArg(ci, 0).type
        returnType == b.env.returnType
    IN
    IF ci.constructing THEN NotInlined(b, "constructing")
    ELSE IF ci.argc # 1 THEN NotInlined(b, "arity")
    ELSE IF argType = "Int32" /\ returnType = "Int32"
    THEN Inlined(addPush(setImplicitlyUsedUnchecked(b), "MLimitedTruncate", <<ArgRef(0)>>))
    ELSE IF IsFloatingPointType(argType) /\ returnType = "Int32"
    THEN Inlined(addPush(setImplicitlyUsedUnchecked(b), "MFloor", <<ArgRef(0)>>))
    ELSE IF IsNumberType(argType) /\ returnType = "Double"
    THEN Inlined(addPush(setImplicitlyUsedUnchecked(b), "MMathFunction", <<ArgRef(0)>>))
    ELSE NotInlined(b, IF IsNumberType(argType) THEN "returnType" ELSE "type")

inlineMathFloor(b, ci) ==
    LET argType == getArg(ci, 0).type
        returnType == b.env.returnType
    IN
    IF ci.constructing THEN NotInlined(b, "constructing")
    ELSE IF ci.argc # 1 THEN NotInlined(b, "arity")
    ELSE IF argType = "Int32" /\ returnType = "Int32"
    THEN Inlined(addPush(setImplicitlyUsedUnchecked(b), "MLimitedTruncate", <<ArgRef(0)>>))
    ELSE IF IsFloatingPointType(argType) /\ returnType = "Int32"
    THEN Inlined(addPush(setImplicitlyUsedUnchecked(b), "MFloor", <<ArgRef(0)>>))
    ELSE IF IsFloatingPointType(argType) /\ returnType = "Double"
    THEN Inlined(addPush(setImplicitlyUsedUnchecked(b), "MMathFunction", <<ArgRef(0)>>))
    ELSE NotInlined(b, IF IsNumberType(argType) THEN "returnType" ELSE "type")

inlineMathCeil(b, ci) ==
    LET argType == getArg(ci, 0).type
        returnType == b.env.returnType
    IN
    IF ci.constructing THEN NotInlined(b, "constructing")
    ELSE IF ci.argc # 1 THEN NotInlined(b, "arity")
    ELSE IF argType = "Int32" /\ returnType = "Int32"
    THEN Inlined(addPush(setImplicitlyUsedUnchecked(b), "MLimitedTruncate", <<ArgRef(0)>>))
    ELSE IF IsFloatingPointType(argType) /\ returnType = "Int32"
    THEN Inlined(addPush(setImplicitlyUsedUnchecked(b), "MCeil", <<ArgRef(0)>>))
    ELSE IF IsFloatingPointType(argType) /\ returnType = "Double"
    THEN Inlined(addPush(setImplicitlyUsedUnchecked(b), "MMathFunction", <<ArgRef(0)>>))
    ELSE NotInlined(b, IF IsNumberType(argType) THEN "returnType" ELSE "type")

inlineMathClz32(b, ci) ==
    IF ci.constructing THEN NotInlined(b, "constructing")
    ELSE IF ci.argc # 1 THEN NotInlined(b, "arity")
    ELSE IF b.env.returnType # "Int32" THEN NotInlined(b, "returnType")
    ELSE IF ~IsNumberType(getArg(ci, 0).type) THEN NotInlined(b, "type")
    ELSE Inlined(addPush(setImplicitlyUsedUnchecked(b), "MClz", <<ArgRef(0)>>))

inlineMathRound(b, ci) ==
    LET argType == getArg(ci, 0).type
        returnType == b.env.returnType
    IN
    IF ci.constructing THEN NotInlined(b, "constructing")
    ELSE IF ci.argc # 1 THEN NotInlined(b, "arity")
    ELSE IF argType = "Int32" /\ returnType = "Int32"
    THEN Inlined(addPush(setImplicitlyUsedUnchecked(b), "MLimitedTruncate", <<ArgRef(0)>>))
    ELSE IF IsFloatingPointType(argType) /\ returnType = "Int32"
    THEN Inlined(addPush(setImplicitlyUsedUnchecked(b), "MRound", <<ArgRef(0)>>))
    ELSE IF IsFloatingPointType(argType) /\ returnType = "Double"
    THEN Inlined(addPush(setImplicitlyUsedUnchecked(b), "MMathFunction", <<ArgRef(0)>>))
    ELSE NotInlined(b, IF IsNumberType(argType) THEN "returnType" ELSE "type")

inlineMathSqrt(b, ci) ==
    IF ci.constructing THEN NotInlined(b, "constructing")
    ELSE IF ci.argc # 1 THEN NotInlined(b, "arity")
    ELSE IF b.env.returnType # "Double" THEN NotInlined(b, "returnType")
    ELSE IF ~IsNumberType(getArg(ci, 0).type) THEN NotInlined(b, "type")
    ELSE Inlined(addPush(setImplicitlyUsedUnchecked(b), "MSqrt", <<ArgRef(0)>>))

inlineMathAtan2(b, ci) ==
    IF ci.constructing THEN NotInlined(b, "constructing")
    ELSE IF ci.argc # 2 THEN NotInlined(b, "arity")
    ELSE IF b.env.returnType # "Double" THEN NotInlined(b, "returnType")
    ELSE IF ~IsNumberType(getArg(ci, 0).type) \/ ~IsNumberType(getArg(ci, 1).type)
    THEN NotInlined(b, "type")
    ELSE Inlined(addPush(setImplicitlyUsedUnchecked(b), "MAtan2", <<ArgRef(0), ArgRef(1)>>))

inlineMathHypot(b, ci) ==
    IF ci.constructing THEN NotInlined(b, "constructing")
    ELSE IF ci.argc # 2 THEN NotInlined(b, "arity")
    ELSE IF b.env.returnType # "Double" THEN NotInlined(b, "returnType")
    ELSE IF ~IsNumberType(getArg(ci, 0).type) \/ ~IsNumberType(getArg(ci, 1).type)
    THEN NotInlined(b, "type")
    ELSE Inlined(addPush(setImplicitlyUsedUnchecked(b), "MHypot", <<ArgRef(0), ArgRef(1)>>))

\* constant exponents with only the square strength-reduced
inlineMathPowConstantSquareOnly(b, ci, outputType) ==
    LET p == getArg(ci, 1)
    IN  IF p.num = 2 /\ ~p.half
        THEN LET b1 == add(b, "MMul", <<ArgRef(0), ArgRef(0)>>)
             IN  [b |-> b1, output |-> last(b1), type |-> outputType]
        ELSE [b |-> b, output |-> ArgRef(0), type |-> "none"]

\* the constant-exponent cases of inlineMathPow: the builder after the
\* arithmetic nodes, the output value and its MIRType ("none": no case hit)
inlineMathPowConstant(b, ci, outputType) ==
    LET base == ArgRef(0)
        p == getArg(ci, 1)
        is(n) == p.num = n /\ ~p.half
    IN
    IF p.num = 0 /\ p.half
    THEN LET b1 == addTyped(b, "MPowHalf", <<base>>, "Double")
         IN  [b |-> b1, output |-> last(b1), type |-> "Double"]
    ELSE IF p.num = -1 /\ p.half
    THEN LET b1 == addTyped(b, "MPowHalf", <<base>>, "Double")
             b2 == addTyped(b1, "MConstant", <<>>, "Double")
             b3 == addTyped(b2, "MDiv", <<last(b2), last(b1)>>, "Double")
         IN  [b |-> b3, output |-> last(b3), type |-> "Double"]
    ELSE IF is(1) THEN [b |-> b, output |-> base, type |-> getArg(ci, 0).type]
    ELSE IF is(2)
    THEN LET b1 == addTyped(b, "MMul", <<base, base>>, outputType)
         IN  [b |-> b1, output |-> last(b1), type |-> outputType]
    ELSE IF is(3)
    THEN LET b1 == addTyped(b, "MMul", <<base, base>>, outputType)
             b2 == addTyped(b1, "MMul", <<base, last(b1)>>, outputType)
         IN  [b |-> b2, output |-> last(b2), type |-> outputType]
    ELSE IF is(4)
    THEN LET b1 == addTyped(b, "MMul", <<base, base>>, outputType)
             b2 == addTyped(b1, "MMul", <<last(b1), last(b1)>>, outputType)
         IN  [b |-> b2, output |-> last(b2), type |-> outputType]
    ELSE [b |-> b, output |-> base, type |-> "none"]

\* inlineMathPow casting only the result of the generic MPow
inlineMathPowCastingGenericOnly(b, ci) ==
    LET baseType == getArg(ci, 0).type
        powerType == getArg(ci, 1).type
        outputType == b.env.returnType
    IN
    IF ci.constructing THEN NotInlined(b, "constructing")
    ELSE IF ci.argc # 2 THEN NotInlined(b, "arity")
    ELSE IF outputType # "Int32" /\ outputType # "Double" THEN NotInlined(b, "returnType")
    ELSE IF ~IsNumberType(baseType) THEN NotInlined(b, "type")
    ELSE IF ~IsNumberType(powerType) THEN NotInlined(b, "type")
    ELSE
    LET b1 == setImplicitlyUsedUnchecked(b)
        c == IF getArg(ci, 1).isConstant
             THEN inlineMathPowConstant(b1, ci, outputType)
             ELSE [b |-> b1, output |-> ArgRef(0), type |-> "none"]
        \* MPow produces a double
        b2 == IF c.type = "none" THEN addTyped(c.b, "MPow", <<ArgRef(0), ArgRef(1)>>, "Double") ELSE c.b
        output == IF c.type = "none" THEN last(b2) ELSE c.output
        type == IF c.type = "none" THEN "Double" ELSE c.type
        b3 == IF c.type # "none" THEN b2
              ELSE IF outputType = "Int32" /\ type # "Int32" THEN addTyped(b2, "MToInt32", <<output>>, "Int32")
              ELSE IF outputType = "Double" /\ type # "Double" THEN addTyped(b2, "MToDouble", <<output>>, "Double")
              ELSE b2
        out == IF Len(b3.nodes) > Len(b2.nodes) THEN last(b3) ELSE output
    IN  Inlined(push(b3, out))

inlineMathPow(b, ci) ==
    LET baseType == getArg(ci, 0).type
        powerType == getArg(ci, 1).type
        outputType == b.env.returnType
    IN
    IF ci.constructing THEN NotInlined(b, "constructing")
    ELSE IF ci.argc # 2 THEN NotInlined(b, "arity")
    ELSE IF outputType # "Int32" /\ outputType # "Double" THEN NotInlined(b, "returnType")
    ELSE IF ~IsNumberType(baseType) THEN NotInlined(b, "type")
    ELSE IF ~IsNumberType(powerType) THEN NotInlined(b, "type")
    ELSE
    LET b1 == setImplicitlyUsedUnchecked(b)
        c == IF getArg(ci, 1).isConstant
             THEN inlineMathPowConstant(b1, ci, outputType)
             ELSE [b |-> b1, output |-> ArgRef(0), type |-> "none"]
        \* MPow produces a double
        b2 == IF c.type = "none" THEN addTyped(c.b, "MPow", <<ArgRef(0), ArgRef(1)>>, "Double") ELSE c.b
        output == IF c.type = "none" THEN last(b2) ELSE c.output
        type == IF c.type = "none" THEN "Double" ELSE c.type
        b3 == IF outputType = "Int32" /\ type # "Int32" THEN addTyped(b2, "MToInt32", <<output>>, "Int32")
              ELSE IF outputType = "Double" /\ type # "Double" THEN addTyped(b2, "MToDouble", <<output>>, "Double")
              ELSE b2
        out == IF Len(b3.nodes) > Len(b2.nodes) THEN last(b3) ELSE output
    IN  Inlined(push(b3, out))

inlineMathRandom(b, ci) ==
    IF ci.constructing THEN NotInlined(b, "constructing")
    ELSE IF b.env.returnType # "Double" THEN NotInlined(b, "returnType")
    ELSE Inlined(addPush(setImplicitlyUsedUnchecked(b), "MRandom", <<>>))

inlineMathImul(b, ci) ==
    IF ci.argc # 2 \/ ci.constructing
    THEN NotInlined(b, IF ci.argc # 2 THEN "arity" ELSE "constructing")
    ELSE IF b.env.returnType # "Int32" THEN NotInlined(b, "returnType")
    ELSE IF ~IsNumberType(getArg(ci, 0).type) THEN NotInlined(b, "type")
    ELSE IF ~IsNumberType(getArg(ci, 1).type) THEN NotInlined(b, "type")
    ELSE
    LET b1 == setImplicitlyUsedUnchecked(b)
        b2 == add(b1, "MTruncateToInt32", <<ArgRef(0)>>)
        b3 == add(b2, "MTruncateToInt32", <<ArgRef(1)>>)
    IN  Inlined(addPush(b3, "MMul", <<last(b2), last(b3)>>))

inlineMathFRound(b, ci) ==
    IF ci.argc # 1 \/ ci.constructing
    THEN NotInlined(b, IF ci.argc # 1 THEN "arity" ELSE "constructing")
    ELSE IF ~b.env.returnTypesEmpty /\ ~IsNumberType(b.env.returnType)
    THEN NotInlined(b, "returnType")
    ELSE
    LET b1 == IF b.env.returnTypesEmpty THEN persist(b, "addType") ELSE b
    IN  IF ~IsNumberType(getArg(ci, 0).type) THEN NotInlined(b1, "type")
        ELSE Inlined(addPush(setImplicitlyUsedUnchecked(b1), "MToFloat32", <<ArgRef(0)>>))

\* the argument scan dropping every floating constant, dominated or not
RECURSIVE inlineMathMinMaxScanDropsAnyConstant(_, _, _, _, _, _)
inlineMathMinMaxScanDropsAnyConstant(b, ci, max, i, int32_cases, returnType) ==
    IF i >= ci.argc
    THEN [b |-> b, int32_cases |-> int32_cases, returnType |-> returnType, end |-> "done"]
    ELSE LET arg == getArg(ci, i)
             stop(bb, e) == [b |-> bb, int32_cases |-> int32_cases,
                             returnType |-> returnType, end |-> e]
         IN  IF arg.type = "Int32"
             THEN LET b1 == fallible(b)
                  IN  IF failed(b1) THEN stop(b1, "Error")
                      ELSE inlineMathMinMaxScanDropsAnyConstant(
                               b1, ci, max, i + 1, Append(int32_cases, ArgRef(i)), returnType)
             ELSE IF IsFloatingPointType(arg.type)
             THEN inlineMathMinMaxScanDropsAnyConstant(
                      b, ci, max, i + 1, int32_cases,
                      IF arg.isConstant THEN returnType ELSE "Double")
             ELSE stop(b, "NotInlined")

\* the argument scan of inlineMathMinMax from argument i on: the Int32
\* operands collected, the return type forced so far, and how the scan ended
RECURSIVE inlineMathMinMaxScan(_, _, _, _, _, _)
inlineMathMinMaxScan(b, ci, max, i, int32_cases, returnType) ==
    IF i >= ci.argc
    THEN [b |-> b, int32_cases |-> int32_cases, returnType |-> returnType, end |-> "done"]
    ELSE LET arg == getArg(ci, i)
             stop(bb, e) == [b |-> bb, int32_cases |-> int32_cases,
                             returnType |-> returnType, end |-> e]
         IN  IF arg.type = "Int32"
             THEN LET b1 == fallible(b)
                  IN  IF failed(b1) THEN stop(b1, "Error")
                      ELSE inlineMathMinMaxScan(b1, ci, max, i + 1,
                                                Append(int32_cases, ArgRef(i)), returnType)
             ELSE IF IsFloatingPointType(arg.type)
             THEN IF /\ arg.isConstant
                     /\ \/ (arg.num >= INT32_MAX /\ ~max)
                        \/ (arg.num = INT32_MIN /\ ~arg.half /\ max)
                  THEN inlineMathMinMaxScan(b, ci, max, i + 1, int32_cases, returnType)
                  ELSE inlineMathMinMaxScan(b, ci, max, i + 1, int32_cases, "Double")
             ELSE stop(b, "NotInlined")

\* a chain loop that walks the operand list again for every operand
RECURSIVE inlineMathMinMaxChainRescanning(_, _, _, _)
inlineMathMinMaxChainRescanning(b, cases, i, returnType) ==
    IF i >= Len(cases) THEN b
    ELSE inlineMathMinMaxChainRescanning(
             addTyped(argLoop(b), "MMinMax", <<last(b), cases[2 + 1]>>, returnType),
             cases, i + 1, returnType)

\* the chain loop of inlineMathMinMax, for (i = 2; i < cases.length(); i++)
RECURSIVE inlineMathMinMaxChain(_, _, _, _)
inlineMathMinMaxChain(b, cases, i, returnType) ==
    IF i >= Len(cases) THEN b
    ELSE inlineMathMinMaxChain(addTyped(b, "MMinMax", <<last(b), cases[2 + 1]>>, returnType),
                               cases, i + 1, returnType)

inlineMathMinMax(b, ci, max) ==
    IF ci.argc < 1 \/ ci.constructing
    THEN NotInlined(b, IF ci.argc < 1 THEN "arity" ELSE "constructing")
    ELSE IF ~IsNumberType(b.env.returnType) THEN NotInlined(b, "returnType")
    ELSE
    LET s == inlineMathMinMaxScan(argLoop(b), ci, max, 0, <<>>, b.env.returnType)
        returnType == IF Len(s.int32_cases) = 0 THEN "Double" ELSE s.returnType
        b1 == setImplicitlyUsedUnchecked(s.b)
        cases == IF returnType = "Int32" THEN s.int32_cases
                 ELSE [i \in 1..ci.argc |-> ArgRef(i - 1)]
    IN  IF s.end = "Error" THEN Error(s.b, "fatal")
        ELSE IF s.end = "NotInlined" THEN NotInlined(s.b, "type")
        ELSE IF Len(cases) = 1
        THEN Inlined(addPush(b1, "MLimitedTruncate", <<cases[1]>>))
        ELSE LET b2 == addTyped(b1, "MMinMax", <<cases[1], cases[2]>>, returnType)
                 b3 == inlineMathMinMaxChain(argLoop(b2), cases, 2, returnType)
             IN  Inlined(push(b3, last(b3)))

\* ---------------------------------------------------------- String natives

\* addBoundsCheck(index, length): the checked index
addBoundsCheck(b, index, length) == add(b, "MBoundsCheck", <<index, length>>)

inlineStringObject(b, ci) ==
    IF ci.argc # 1 \/ ~ci.constructing
    THEN NotInlined(b, IF ci.argc # 1 THEN "arity" ELSE "constructing")
    ELSE IF mightBeType(getArg(ci, 0), "Object") THEN NotInlined(b, "type")
    ELSE IF b.env.template = "none" THEN NotInlined(b, "template")
    ELSE
    LET b1 == addPush(setImplicitlyUsedUnchecked(b), "MNewStringObject", <<ArgRef(0)>>)
        b2 == resumeAfter(b1, Len(b1.nodes))
    IN  IF failed(b2) THEN Error(b2, "fatal") ELSE Inlined(b2)

inlineStringSplit(b, ci) ==
    IF ci.argc # 1 \/ ci.constructing
    THEN NotInlined(b, IF ci.argc # 1 THEN "arity" ELSE "constructing")
    ELSE IF ci.thisArg.type # "String" THEN NotInlined(b, "type")
    ELSE IF getArg(ci, 0).type # "String" THEN NotInlined(b, "type")
    ELSE IF b.env.template = "none" THEN NotInlined(b, "template")
    ELSE IF b.env.templateUnknownProps THEN NotInlined(b, "shape")
    ELSE IF ~b.env.templateHasElemTypes THEN NotInlined(b, "shape")
    ELSE IF "String" \notin b.env.templateElemTypes
    THEN NotInlined(persist(b, "freeze"), "shape")
    ELSE
    LET b1 == add(setImplicitlyUsedUnchecked(b), "MConstant", <<>>)
    IN  Inlined(addPush(b1, "MStringSplit", <<ThisRef, ArgRef(0), last(b1)>>))

\* constant folding that always takes the first code unit
inlineConstantCharCodeAtFirstUnit(b, ci) ==
    LET str == ci.thisArg
        idx == getArg(ci, 0)
    IN
    IF ~str.isConstant \/ ~idx.isConstant THEN NotInlined(b, "constant")
    ELSE IF str.type # "String" \/ idx.type # "Int32" \/ ~str.isLinear
    THEN NotInlined(b, "constant")
    ELSE IF idx.num < 0 \/ idx.num >= Len(str.str) THEN NotInlined(b, "range")
    ELSE Inlined(addPush(setImplicitlyUsedUnchecked(b), "MConstant", <<ConstVal(str.str[1])>>))

inlineConstantCharCodeAt(b, ci) ==
    LET str == ci.thisArg
        idx == getArg(ci, 0)
    IN
    IF ~str.isConstant THEN NotInlined(b, "constant")
    ELSE IF ~idx.isConstant THEN NotInlined(b, "constant")
    ELSE IF str.type # "String" \/ idx.type # "Int32" THEN NotInlined(b, "constant")
    ELSE IF ~str.isLinear THEN NotInlined(b, "constant")
    ELSE IF idx.num < 0 \/ idx.num >= Len(str.str) THEN NotInlined(b, "range")
    ELSE Inlined(addPush(setImplicitlyUsedUnchecked(b), "MConstant",
                         <<ConstVal(str.str[idx.num + 1])>>))

\* inlineStrCharCodeAt marking the call dead before it tries the constant fold
inlineStrCharCodeAtMarkingFirst(b, ci) ==
    LET argType == getArg(ci, 0).type
    IN
    IF ci.argc # 1 \/ ci.constructing
    THEN NotInlined(b, IF ci.argc # 1 THEN "arity" ELSE "constructing")
    ELSE IF b.env.returnType # "Int32" THEN NotInlined(b, "returnType")
    ELSE IF ci.thisArg.type # "String" /\ ci.thisArg.type # "Value" THEN NotInlined(b, "type")
    ELSE IF argType # "Int32" /\ argType # "Double" THEN NotInlined(b, "type")
    ELSE
    LET b0 == setImplicitlyUsedUnchecked(b)
        constInlineStatus == inlineConstantCharCodeAt(b0, ci)
        b1 == add(b0, "MToInt32", <<ArgRef(0)>>)
        b2 == add(b1, "MStringLength", <<ThisRef>>)
        b3 == addBoundsCheck(b2, last(b1), last(b2))
    IN  IF constInlineStatus.status # "NotInlined" THEN constInlineStatus
        ELSE Inlined(addPush(b3, "MCharCodeAt", <<ThisRef, last(b3)>>))

inlineStrCharCodeAt(b, ci) ==
    LET argType == getArg(ci, 0).type
    IN
    IF ci.argc # 1 \/ ci.constructing
    THEN NotInlined(b, IF ci.argc # 1 THEN "arity" ELSE "constructing")
    ELSE IF b.env.returnType # "Int32" THEN NotInlined(b, "returnType")
    ELSE IF ci.thisArg.type # "String" /\ ci.thisArg.type # "Value" THEN NotInlined(b, "type")
    ELSE IF argType # "Int32" /\ argType # "Double" THEN NotInlined(b, "type")
    ELSE
    LET constInlineStatus == inlineConstantCharCodeAt(b, ci)
        b1 == add(setImplicitlyUsedUnchecked(constInlineStatus), "MToInt32", <<ArgRef(0)>>)
        b2 == add(b1, "MStringLength", <<ThisRef>>)
        b3 == addBoundsCheck(b2, last(b1), last(b2))
    IN  IF constInlineStatus.status # "NotInlined" THEN constInlineStatus
        ELSE Inlined(addPush(b3, "MCharCodeAt", <<ThisRef, last(b3)>>))

inlineStrFromCharCode(b, ci) ==
    IF ci.argc # 1 \/ ci.constructing
    THEN NotInlined(b, IF ci.argc # 1 THEN "arity" ELSE "constructing")
    ELSE IF b.env.returnType # "String" THEN NotInlined(b, "returnType")
    ELSE IF getArg(ci, 0).type # "Int32" THEN NotInlined(b, "type")
    ELSE
    LET b1 == add(setImplicitlyUsedUnchecked(b), "MToInt32", <<ArgRef(0)>>)
    IN  Inlined(addPush(b1, "MFromCharCode", <<last(b1)>>))

\* inlineStrCharAt reading the character at the unchecked index
inlineStrCharAtUnchecked(b, ci) ==
    LET argType == getArg(ci, 0).type
    IN
    IF ci.argc # 1 \/ ci.constructing
    THEN NotInlined(b, IF ci.argc # 1 THEN "arity" ELSE "constructing")
    ELSE IF b.env.returnType # "String" THEN NotInlined(b, "returnType")
    ELSE IF ci.thisArg.type # "String" THEN NotInlined(b, "type")
    ELSE IF argType # "Int32" /\ argType # "Double" THEN NotInlined(b, "type")
    ELSE
    LET b1 == add(setImplicitlyUsedUnchecked(b), "MToInt32", <<ArgRef(0)>>)
        b2 == add(b1, "MStringLength", <<ThisRef>>)
        b3 == addBoundsCheck(b2, last(b1), last(b2))
        b4 == add(b3, "MCharCodeAt", <<ThisRef, last(b1)>>)
    IN  Inlined(addPush(b4, "MFromCharCode", <<last(b4)>>))

inlineStrCharAt(b, ci) ==
    LET argType == getArg(ci, 0).type
    IN
    IF ci.argc # 1 \/ ci.constructing
    THEN NotInlined(b, IF ci.argc # 1 THEN "arity" ELSE "constructing")
    ELSE IF b.env.returnType # "String" THEN NotInlined(b, "returnType")
    ELSE IF ci.thisArg.type # "String" THEN NotInlined(b, "type")
    ELSE IF argType # "Int32" /\ argType # "Double" THEN NotInlined(b, "type")
    ELSE
    LET b1 == add(setImplicitlyUsedUnchecked(b), "MToInt32", <<ArgRef(0)>>)
        b2 == add(b1, "MStringLength", <<ThisRef>>)
        b3 == addBoundsCheck(b2, last(b1), last(b2))
        b4 == add(b3, "MCharCodeAt", <<ThisRef, last(b3)>>)
    IN  Inlined(addPush(b4, "MFromCharCode", <<last(b4)>>))

\* ---------------------------------------------------------- RegExp natives

\* jitCompartment()->ensureRegExpExecStubExists(cx) / ...TestStubExists(cx)
ensureRegExpStubExists(b) == [fallible(b) EXCEPT !.log = Append(@, "stub")]

\* thisTypes ? thisTypes->getKnownClass() : nullptr
getKnownClass(d) == IF d.hasTypes THEN d.knownClass ELSE "none"

inlineRegExpExec(b, ci) ==
    IF ci.argc # 1 \/ ci.constructing
    THEN NotInlined(b, IF ci.argc # 1 THEN "arity" ELSE "constructing")
    ELSE IF ci.thisArg.type # "Object" THEN NotInlined(b, "type")
    ELSE IF getKnownClass(ci.thisArg) # "RegExp" THEN NotInlined(b, "shape")
    ELSE IF mightBeType(getArg(ci, 0), "Object") THEN NotInlined(b, "type")
    ELSE
    LET b1 == ensureRegExpStubExists(b)
        b2 == addPush(setImplicitlyUsedUnchecked(b1), "MRegExpExec", <<ThisRef, ArgRef(0)>>)
        b3 == resumeAfter(b2, Len(b2.nodes))
        b4 == pushTypeBarrier(b3, TRUE)
    IN  IF failed(b1) THEN Error(b1, "fatal")
        ELSE IF failed(b3) THEN Error(b3, "fatal")
        ELSE IF failed(b4) THEN Error(b4, "fatal")
        ELSE Inlined(b4)

\* inlineRegExpTest marking the call dead before the stub is ensured
inlineRegExpTestMarkingFirst(b, ci) ==
    IF ci.argc # 1 \/ ci.constructing
    THEN NotInlined(b, IF ci.argc # 1 THEN "arity" ELSE "constructing")
    ELSE IF b.env.resultEscapes /\ b.env.returnType # "Boolean" THEN NotInlined(b, "returnType")
    ELSE IF ci.thisArg.type # "Object" THEN NotInlined(b, "type")
    ELSE IF getKnownClass(ci.thisArg) # "RegExp" THEN NotInlined(b, "shape")
    ELSE IF mightBeType(getArg(ci, 0), "Object") THEN NotInlined(b, "type")
    ELSE
    LET b1 == ensureRegExpStubExists(setImplicitlyUsedUnchecked(b))
        b2 == addPush(b1, "MRegExpTest", <<ThisRef, ArgRef(0)>>)
        b3 == resumeAfter(b2, Len(b2.nodes))
    IN  IF failed(b1) THEN Error(b1, "fatal")
        ELSE IF failed(b3) THEN Error(b3, "fatal")
        ELSE Inlined(b3)

inlineRegExpTest(b, ci) ==
    IF ci.argc # 1 \/ ci.constructing
    THEN NotInlined(b, IF ci.argc # 1 THEN "arity" ELSE "constructing")
    ELSE IF b.env.resultEscapes /\ b.env.returnType # "Boolean" THEN NotInlined(b, "returnType")
    ELSE IF ci.thisArg.type # "Object" THEN NotInlined(b, "type")
    ELSE IF getKnownClass(ci.thisArg) # "RegExp" THEN NotInlined(b, "shape")
    ELSE IF mightBeType(getArg(ci, 0), "Object") THEN NotInlined(b, "type")
    ELSE
    LET b1 == ensureRegExpStubExists(b)
        b2 == addPush(setImplicitlyUsedUnchecked(b1), "MRegExpTest", <<ThisRef, ArgRef(0)>>)
        b3 == resumeAfter(b2, Len(b2.nodes))
    IN  IF failed(b1) THEN Error(b1, "fatal")
        ELSE IF failed(b3) THEN Error(b3, "fatal")
        ELSE Inlined(b3)

inlineStrReplace(b, ci) ==
    LET arg0 == getArg(ci, 0)
    IN
    IF ci.argc # 2 \/ ci.constructing
    THEN NotInlined(b, IF ci.argc # 2 THEN "arity" ELSE "constructing")
    ELSE IF b.env.returnType # "String" THEN NotInlined(b, "returnType")
    ELSE IF ci.thisArg.type # "String" THEN NotInlined(b, "type")
    ELSE IF getKnownClass(arg0) # "RegExp" /\ arg0.type # "String" THEN NotInlined(b, "type")
    ELSE IF getArg(ci, 1).type # "String" THEN NotInlined(b, "type")
    ELSE
    LET op == IF arg0.type = "String" THEN "MStringReplace" ELSE "MRegExpReplace"
        b1 == addPush(setImplicitlyUsedUnchecked(b), op, <<ThisRef, ArgRef(0), ArgRef(1)>>)
        b2 == IF Effectful(op) THEN resumeAfter(b1, Len(b1.nodes)) ELSE b1
    IN  IF Effectful(op) /\ failed(b2) THEN Error(b2, "fatal") ELSE Inlined(b2)

\* -------------------------------------------------------- Array intrinsics

ElementAccessIsDenseNative(obj, id) ==
    obj.type = "Object" /\ id.type \in {"Int32", "Double"} /\ obj.access = "dense"

ElementAccessIsAnyTypedArray(obj, id) ==
    obj.type = "Object" /\ id.type \in {"Int32", "Double"} /\ obj.access = "typedArray"

elementAccessIsTypedObjectArrayOfScalarType(obj, id) ==
    IF obj.type # "Object" THEN FALSE
    ELSE IF id.type # "Int32" /\ id.type # "Double" THEN FALSE
    ELSE obj.access = "typedObject"

\* jsop_setelem_dense / _typed / _typed_object with SetElem_Unsafe: the store
\* is added, nothing is pushed, and a resume point is attached (can fail)
jsop_setelem(b, op, base) ==
    LET b1 == add(b, op, <<ArgRef(base), ArgRef(base + 1), ArgRef(base + 2)>>)
    IN  resumeAfter(b1, Len(b1.nodes))

inlineUnsafeSetDenseArrayElement(b, ci, base) == jsop_setelem(b, "MStoreElement", base)

inlineUnsafeSetTypedArrayElement(b, ci, base) == jsop_setelem(b, "MStoreTypedArrayElement", base)

inlineUnsafeSetTypedObjectArrayElement(b, ci, base) == jsop_setelem(b, "MStoreTypedObjectElement", base)

\* validation that looks at the first group only
inlineUnsafePutElementsRejectsFirstOnly(ci, base) ==
    LET obj == getArg(ci, base)
        id == getArg(ci, base + 1)
        elem == getArg(ci, base + 2)
        isDenseNative == ElementAccessIsDenseNative(obj, id)
    IN  /\ base = 0
        /\ (~isDenseNative \/ elem.writeBarrier)
        /\ ~ElementAccessIsAnyTypedArray(obj, id)
        /\ ~elementAccessIsTypedObjectArrayOfScalarType(obj, id)

\* the validation loop of inlineUnsafePutElements: TRUE iff the group at
\* base makes it return NotInlined
inlineUnsafePutElementsRejects(ci, base) ==
    LET obj == getArg(ci, base)
        id == getArg(ci, base + 1)
        elem == getArg(ci, base + 2)
        isDenseNative == ElementAccessIsDenseNative(obj, id)
        writeNeedsBarrier == isDenseNative /\ elem.writeBarrier
    IN  /\ (~isDenseNative \/ writeNeedsBarrier)
        /\ ~ElementAccessIsAnyTypedArray(obj, id)
        /\ ~elementAccessIsTypedObjectArrayOfScalarType(obj, id)

\* an emission loop that takes the dense-array path for every array that is
\* not a typed array
RECURSIVE inlineUnsafePutElementsStoresDenseFirst(_, _, _)
inlineUnsafePutElementsStoresDenseFirst(b, ci, base) ==
    IF base >= ci.argc THEN [b |-> b, end |-> "done"]
    ELSE LET obj == getArg(ci, base)
             id == getArg(ci, base + 1)
             b1 == IF ElementAccessIsAnyTypedArray(obj, id)
                   THEN inlineUnsafeSetTypedArrayElement(b, ci, base)
                   ELSE inlineUnsafeSetDenseArrayElement(b, ci, base)
         IN  IF failed(b1) THEN [b |-> b1, end |-> "Error"]
             ELSE inlineUnsafePutElementsStoresDenseFirst(b1, ci, base + 3)

\* the emission loop of inlineUnsafePutElements from group base on; end is
\* "Error" when a store failed and "crash" when no branch applies
RECURSIVE inlineUnsafePutElementsStores(_, _, _)
inlineUnsafePutElementsStores(b, ci, base) ==
    IF base >= ci.argc THEN [b |-> b, end |-> "done"]
    ELSE LET obj == getArg(ci, base)
             id == getArg(ci, base + 1)
             b1 == IF ElementAccessIsDenseNative(obj, id)
                   THEN inlineUnsafeSetDenseArrayElement(b, ci, base)
                   ELSE IF ElementAccessIsAnyTypedArray(obj, id)
                   THEN inlineUnsafeSetTypedArrayElement(b, ci, base)
                   ELSE inlineUnsafeSetTypedObjectArrayElement(b, ci, base)
         IN  IF /\ ~ElementAccessIsDenseNative(obj, id)
                /\ ~ElementAccessIsAnyTypedArray(obj, id)
                /\ ~elementAccessIsTypedObjectArrayOfScalarType(obj, id)
             THEN [b |-> b, end |-> "crash"]
             ELSE IF failed(b1) THEN [b |-> b1, end |-> "Error"]
             ELSE inlineUnsafePutElementsStores(b1, ci, base + 3)

\* inlineUnsafePutElements pushing the undefined result after the stores
inlineUnsafePutElementsResultLast(b, ci) ==
    LET argc == ci.argc
    IN
    IF argc < 3 \/ (argc % 3) # 0 \/ ci.constructing
    THEN NotInlined(b, IF ci.constructing /\ argc >= 3 /\ (argc % 3) = 0
                       THEN "constructing" ELSE "arity")
    ELSE IF \E g \in 0..((argc \div 3) - 1) : inlineUnsafePutElementsRejects(ci, 3 * g)
    THEN NotInlined(argLoop(b), "shape")
    ELSE
    LET b1 == setImplicitlyUsedUnchecked(argLoop(b))
        r == inlineUnsafePutElementsStores(argLoop(b1), ci, 0)
    IN  IF r.end = "Error" THEN Error(r.b, "fatal")
        ELSE IF r.end = "crash" THEN Ret(r.b, "Crash", "crash")
        ELSE Inlined(pushConstant(r.b, UndefinedValue))

inlineUnsafePutElements(b, ci) ==
    LET argc == ci.argc
    IN
    IF argc < 3 \/ (argc % 3) # 0 \/ ci.constructing
    THEN NotInlined(b, IF ci.constructing /\ argc >= 3 /\ (argc % 3) = 0
                       THEN "constructing" ELSE "arity")
    ELSE IF \E g \in 0..((argc \div 3) - 1) : inlineUnsafePutElementsRejects(ci, 3 * g)
    THEN NotInlined(argLoop(b), "shape")
    ELSE
    LET b1 == pushConstant(setImplicitlyUsedUnchecked(argLoop(b)), UndefinedValue)
        r == inlineUnsafePutElementsStores(argLoop(b1), ci, 0)
    IN  IF r.end = "Error" THEN Error(r.b, "fatal")
        ELSE IF r.end = "crash" THEN Ret(r.b, "Crash", "crash")
        ELSE Inlined(r.b)

inlineNewDenseArrayForSequentialExecution(b, ci) == NotInlined(b, "mode")

inlineNewDenseArrayForParallelExecution(b, ci) ==
    IF b.env.returnType # "Object" THEN NotInlined(b, "returnType")
    ELSE IF b.env.returnObjectCount # 1 THEN NotInlined(b, "shape")
    ELSE IF getArg(ci, 0).type # "Int32" THEN NotInlined(b, "type")
    ELSE IF b.env.template # "match" THEN NotInlined(b, "template")
    ELSE Inlined(addPush(setImplicitlyUsedUnchecked(b), "MNewDenseArrayPar", <<ArgRef(0)>>))

inlineNewDenseArray(b, ci) ==
    IF ci.constructing \/ ci.argc # 1
    THEN NotInlined(b, IF ci.constructing THEN "constructing" ELSE "arity")
    ELSE IF b.executionMode = "ParallelExecution"
    THEN inlineNewDenseArrayForParallelExecution(b, ci)
    ELSE inlineNewDenseArrayForSequentialExecution(b, ci)

\* --------------------------------------------------------- Slot intrinsics

inlineUnsafeSetReservedSlot(b, ci) ==
    IF ci.argc # 3 \/ ci.constructing
    THEN NotInlined(b, IF ci.argc # 3 THEN "arity" ELSE "constructing")
    ELSE IF b.env.returnType # "Undefined" THEN NotInlined(b, "returnType")
    ELSE IF getArg(ci, 0).type # "Object" THEN NotInlined(b, "type")
    ELSE IF getArg(ci, 1).type # "Int32" THEN NotInlined(b, "type")
    ELSE IF ~getArg(ci, 1).isConstant THEN NotInlined(b, "constant")
    ELSE
    LET b1 == addPush(setImplicitlyUsedUnchecked(b), "MStoreFixedSlot",
                      <<ArgRef(0), ConstVal(getArg(ci, 1).num), ArgRef(2)>>)
    IN  Inlined(IF getArg(ci, 2).postBarrier
                THEN add(b1, "MPostWriteBarrier", <<ArgRef(0), ArgRef(2)>>)
                ELSE b1)

\* inlineUnsafeGetReservedSlot asking for a barrier only when the observed
\* return type-set is not a single type
inlineUnsafeGetReservedSlotBarrierByType(b, ci) ==
    IF ci.argc # 2 \/ ci.constructing
    THEN NotInlined(b, IF ci.argc # 2 THEN "arity" ELSE "constructing")
    ELSE IF getArg(ci, 0).type # "Object" THEN NotInlined(b, "type")
    ELSE IF getArg(ci, 1).type # "Int32" THEN NotInlined(b, "type")
    ELSE IF ~getArg(ci, 1).isConstant THEN NotInlined(b, "constant")
    ELSE
    LET b1 == addPush(setImplicitlyUsedUnchecked(b), "MLoadFixedSlot",
                      <<ArgRef(0), ConstVal(getArg(ci, 1).num)>>)
        b2 == pushTypeBarrier(b1, b.env.returnType = "Value")
    IN  IF failed(b2) THEN Error(b2, "fatal") ELSE Inlined(b2)

inlineUnsafeGetReservedSlot(b, ci) ==
    IF ci.argc # 2 \/ ci.constructing
    THEN NotInlined(b, IF ci.argc # 2 THEN "arity" ELSE "constructing")
    ELSE IF getArg(ci, 0).type # "Object" THEN NotInlined(b, "type")
    ELSE IF getArg(ci, 1).type # "Int32" THEN NotInlined(b, "type")
    ELSE IF ~getArg(ci, 1).isConstant THEN NotInlined(b, "constant")
    ELSE
    LET b1 == addPush(setImplicitlyUsedUnchecked(b), "MLoadFixedSlot",
                      <<ArgRef(0), ConstVal(getArg(ci, 1).num)>>)
        b2 == pushTypeBarrier(b1, TRUE)
    IN  IF failed(b2) THEN Error(b2, "fatal") ELSE Inlined(b2)

\* ----------------------------------------------------- Parallel intrinsics

\* inlineForceSequentialOrInParallelSection answering true in every mode
inlineForceSequentialOrInParallelSectionAnyMode(b, ci) ==
    IF ci.constructing THEN NotInlined(b, "constructing")
    ELSE Inlined(pushConstant(setImplicitlyUsedUnchecked(b), BooleanValue(TRUE)))

inlineForceSequentialOrInParallelSection(b, ci) ==
    IF ci.constructing THEN NotInlined(b, "constructing")
    ELSE IF b.executionMode = "ParallelExecution"
    THEN Inlined(pushConstant(setImplicitlyUsedUnchecked(b), BooleanValue(TRUE)))
    ELSE NotInlined(b, "mode")

inlineForkJoinGetSlice(b, ci) ==
    IF b.executionMode # "ParallelExecution" THEN NotInlined(b, "mode")
    ELSE IF b.env.returnType # "Int32" THEN NotInlined(b, "returnType")
    ELSE
    LET b1 == setImplicitlyUsedUnchecked(b)
    IN  IF b.executionMode = "ParallelExecution"
        THEN IF b.env.allowForkJoinGetSlice
             THEN Inlined(addPush(b1, "MForkJoinGetSlice", <<>>))
             ELSE NotInlined(b1, "lowering")
        ELSE Inlined(push(b1, ArgRef(0)))

\* ------------------------------------------------------ Utility intrinsics

inlineIsCallable(b, ci) ==
    LET clasp == getKnownClass(getArg(ci, 0))
        isCallableKnown == clasp # "none" /\ clasp # "Proxy"
        b1 == setImplicitlyUsedUnchecked(b)
    IN
    IF ci.argc # 1 \/ ci.constructing
    THEN NotInlined(b, IF ci.argc # 1 THEN "arity" ELSE "constructing")
    ELSE IF b.env.returnType # "Boolean" THEN NotInlined(b, "returnType")
    ELSE IF getArg(ci, 0).type # "Object" THEN NotInlined(b, "type")
    ELSE IF isCallableKnown
    THEN Inlined(addPush(b1, "MConstant", <<BooleanValue(clasp = "Function")>>))
    ELSE Inlined(addPush(b1, "MIsCallable", <<ArgRef(0)>>))

inlineHaveSameClass(b, ci) ==
    LET arg1Clasp == getKnownClass(getArg(ci, 0))
        arg2Clasp == getKnownClass(getArg(ci, 1))
    IN
    IF ci.argc # 2 \/ ci.constructing
    THEN NotInlined(b, IF ci.argc # 2 THEN "arity" ELSE "constructing")
    ELSE IF getArg(ci, 0).type # "Object" THEN NotInlined(b, "type")
    ELSE IF getArg(ci, 1).type # "Object" THEN NotInlined(b, "type")
    ELSE IF arg1Clasp # "none" /\ arg2Clasp # "none"
    THEN Inlined(addPush(b, "MConstant", <<BooleanValue(arg1Clasp = arg2Clasp)>>))
    ELSE Inlined(addPush(setImplicitlyUsedUnchecked(b), "MHaveSameClass",
                         <<ArgRef(0), ArgRef(1)>>))

inlineToObject(b, ci) ==
    IF ci.argc # 1 \/ ci.constructing
    THEN NotInlined(b, IF ci.argc # 1 THEN "arity" ELSE "constructing")
    ELSE IF b.env.returnType # "Object" THEN NotInlined(b, "returnType")
    ELSE IF getArg(ci, 0).type # "Object" THEN NotInlined(b, "type")
    ELSE Inlined(push(setImplicitlyUsedUnchecked(b), ArgRef(0)))

inlineIsObject(b, ci) ==
    IF ci.argc # 1 \/ ci.constructing
    THEN NotInlined(b, IF ci.argc # 1 THEN "arity" ELSE "constructing")
    ELSE IF b.env.returnType # "Boolean" THEN NotInlined(b, "returnType")
    ELSE Inlined(addPush(setImplicitlyUsedUnchecked(b), "MIsObject", <<ArgRef(0)>>))

inlineToInteger(b, ci) ==
    LET input == getArg(ci, 0)
    IN
    IF ci.argc # 1 \/ ci.constructing
    THEN NotInlined(b, IF ci.argc # 1 THEN "arity" ELSE "constructing")
    ELSE IF \E t \in {"Object", "String", "Symbol", "Undefined", "Magic"} : mightBeType(input, t)
    THEN NotInlined(b, "type")
    ELSE IF b.env.returnType # "Int32" THEN NotInlined(b, "returnType")
    ELSE Inlined(addPush(setImplicitlyUsedUnchecked(b), "MToInt32", <<ArgRef(0)>>))

inlineToString(b, ci) ==
    IF ci.argc # 1 \/ ci.constructing
    THEN NotInlined(b, IF ci.argc # 1 THEN "arity" ELSE "constructing")
    ELSE IF b.env.returnType # "String" THEN NotInlined(b, "returnType")
    ELSE Inlined(addPush(setImplicitlyUsedUnchecked(b), "MToString", <<ArgRef(0)>>))

inlineIsConstructing(b, ci) ==
    LET b1 == setImplicitlyUsedUnchecked(b)
    IN
    IF b.env.returnType # "Boolean" THEN NotInlined(b, "returnType")
    ELSE IF b.env.inliningDepth = 0 THEN Inlined(addPush(b1, "MIsConstructing", <<>>))
    ELSE Inlined(pushConstant(b1, BooleanValue(b.env.outerConstructing)))

\* the loop of inlineHasClass over remaining[] = { clasp2, clasp3, clasp4 }
RECURSIVE inlineHasClassRemaining(_, _, _, _)
inlineHasClassRemaining(b, remaining, i, lastDef) ==
    IF i > Len(remaining) THEN [b |-> b, last |-> lastDef]
    ELSE LET b1 == add(b, "MHasClass", <<ArgRef(0), ClassRef(remaining[i])>>)
             b2 == add(b1, "MBitOr", <<lastDef, last(b1)>>)
         IN  inlineHasClassRemaining(b2, remaining, i + 1, last(b2))

inlineHasClass(b, ci, clasp1, clasp2, clasp3, clasp4) ==
    LET knownClass == getKnownClass(getArg(ci, 0))
    IN
    IF ci.constructing \/ ci.argc # 1
    THEN NotInlined(b, IF ci.constructing THEN "constructing" ELSE "arity")
    ELSE IF getArg(ci, 0).type # "Object" THEN NotInlined(b, "type")
    ELSE IF b.env.returnType # "Boolean" THEN NotInlined(b, "returnType")
    ELSE IF knownClass # "none"
    THEN Inlined(setImplicitlyUsedUnchecked(
             pushConstant(b, BooleanValue(knownClass \in {clasp1, clasp2, clasp3, clasp4}))))
    ELSE
    LET b1 == add(b, "MHasClass", <<ArgRef(0), ClassRef(clasp1)>>)
        r == inlineHasClassRemaining(b1, <<clasp2, clasp3, clasp4>>, 1, last(b1))
        b2 == add(r.b, "MNot", <<r.last>>)
        b3 == addPush(b2, "MNot", <<last(b2)>>)
    IN  IF clasp2 = "null" /\ clasp3 = "null" /\ clasp4 = "null"
        THEN Inlined(setImplicitlyUsedUnchecked(push(b1, last(b1))))
        ELSE Inlined(setImplicitlyUsedUnchecked(b3))

inlineObjectIsTypeDescr(b, ci) ==
    LET types == getArg(ci, 0)
    IN
    IF ci.constructing \/ ci.argc # 1
    THEN NotInlined(b, IF ci.constructing THEN "constructing" ELSE "arity")
    ELSE IF types.type # "Object" THEN NotInlined(b, "type")
    ELSE IF b.env.returnType # "Boolean" THEN NotInlined(b, "returnType")
    ELSE IF ~types.hasTypes THEN NotInlined(b, "shape")
    ELSE IF types.forAll = "MIXED" THEN NotInlined(b, "shape")
    ELSE Inlined(setImplicitlyUsedUnchecked(
             pushConstant(b, BooleanValue(types.forAll = "ALL_TRUE"))))

inlineSetTypedObjectOffset(b, ci) ==
    LET typedObj == getArg(ci, 0)
        offset == getArg(ci, 1)
    IN
    IF ci.argc # 2 \/ ci.constructing
    THEN NotInlined(b, IF ci.argc # 2 THEN "arity" ELSE "constructing")
    ELSE IF b.env.returnType # "Undefined" THEN NotInlined(b, "returnType")
    ELSE IF typedObj.type # "Object" THEN NotInlined(b, "type")
    ELSE IF ~typedObj.hasTypes THEN NotInlined(b, "shape")
    ELSE IF typedObj.forAll # "ALL_TRUE" THEN NotInlined(b, "shape")
    ELSE IF offset.type # "Int32" THEN NotInlined(b, "type")
    ELSE Inlined(addPush(setImplicitlyUsedUnchecked(b), "MSetTypedObjectOffset",
                         <<ArgRef(0), ArgRef(1)>>))

\* ------------------------------------------------------- Testing functions

inlineBailout(b, ci) ==
    LET b1 == add(setImplicitlyUsedUnchecked(b), "MBail", <<>>)
    IN  Inlined(addPush(b1, "MConstant", <<UndefinedValue>>))

inlineAssertFloat32(b, ci) ==
    LET b1 == add(setImplicitlyUsedUnchecked(b), "MAssertFloat32", <<ArgRef(0)>>)
    IN  Inlined(addPush(b1, "MConstant", <<UndefinedValue>>))

\* ----------------------------------------------------------- Bound function

ARGS_LENGTH_MAX == 500000

\* target->getBoundFunctionArgument(i - 1): env.boundArgs lists the first
\* pre-bound arguments, any further one is a primitive value
getBoundFunctionArgument(e, i) ==
    IF i <= Len(e.boundArgs) THEN e.boundArgs[i] ELSE "primitive"

\* constant(v): an MConstant is added to the block
constant(b, v) == add(b, "MConstant", <<v>>)

\* makeCall(target, callInfo, false): the call instruction is added and
\* pushed, then resumed after and type-barriered; each of the three can fail
makeCall(b, fun, this, argv) ==
    LET b1 == fallible(b)
        b2 == addPush(b1, "MCall", <<fun, this>> \o argv)
        b3 == resumeAfter(b2, Len(b2.nodes))
        b4 == pushTypeBarrier(b3, TRUE)
    IN  IF failed(b1) THEN b1 ELSE IF failed(b3) THEN b3 ELSE b4

\* the pre-bound arguments collected in reverse order
RECURSIVE inlineBoundFunctionArgsReversed(_, _, _)
inlineBoundFunctionArgsReversed(b, i, argv) ==
    IF i > b.env.boundArgCount THEN [b |-> b, argv |-> argv]
    ELSE LET b1 == constant(b, [k |-> "boundArg", i |-> i - 1])
         IN  inlineBoundFunctionArgsReversed(b1, i + 1, <<last(b1)>> \o argv)

\* the first loop of inlineBoundFunction: one constant per pre-bound argument
RECURSIVE inlineBoundFunctionArgs(_, _, _)
inlineBoundFunctionArgs(b, i, argv) ==
    IF i > b.env.boundArgCount THEN [b |-> b, argv |-> argv]
    ELSE LET b1 == constant(b, [k |-> "boundArg", i |-> i - 1])
         IN  inlineBoundFunctionArgs(b1, i + 1, Append(argv, last(b1)))

\* inlineBoundFunction without the nursery test on the pre-bound arguments
inlineBoundFunctionIgnoringBoundArgs(b, nativeCallInfo) ==
    LET e == b.env
    IN
    IF e.boundTarget # "function" THEN NotInlined(b, "shape")
    ELSE IF nativeCallInfo.constructing /\ ~e.boundTargetCtor THEN NotInlined(b, "constructing")
    ELSE IF e.boundTargetNursery \/ e.boundThis = "nurseryObject" THEN NotInlined(b, "nursery")
    ELSE IF e.boundArgCount + nativeCallInfo.argc > ARGS_LENGTH_MAX THEN NotInlined(b, "arity")
    ELSE
    LET b1 == markOnly(b, {"this"})
        b2 == constant(b1, [k |-> "boundTarget", i |-> 0])
        b3 == constant(b2, [k |-> "boundThis", i |-> 0])
        b4 == fallible(b3)
        r == inlineBoundFunctionArgs(b4, 1, <<>>)
        argv == r.argv \o [i \in 1..nativeCallInfo.argc |-> ArgRef(i - 1)]
        b5 == makeCall(argLoop(r.b), last(b2), last(b3), argv)
    IN  IF failed(b4) THEN Error(b4, "fatal")
        ELSE IF failed(b5) THEN Error(b5, "fatal")
        ELSE Inlined(b5)

inlineBoundFunction(b, nativeCallInfo) ==
    LET e == b.env
        argc == e.boundArgCount + nativeCallInfo.argc
    IN
    IF e.boundTarget # "function" THEN NotInlined(b, "shape")
    ELSE IF nativeCallInfo.constructing /\ ~e.boundTargetCtor THEN NotInlined(b, "constructing")
    ELSE IF e.boundTargetNursery THEN NotInlined(b, "nursery")
    \* the loop over all pre-bound arguments: those past env.boundArgs are
    \* primitive values, which are never in the nursery
    ELSE IF \E i \in 1..Len(e.boundArgs) : getBoundFunctionArgument(e, i) = "nurseryObject"
    THEN NotInlined(b, "nursery")
    ELSE IF e.boundThis = "nurseryObject" THEN NotInlined(b, "nursery")
    ELSE IF argc > ARGS_LENGTH_MAX THEN NotInlined(b, "arity")
    ELSE
    LET b1 == markOnly(b, {"this"})
        b2 == constant(b1, [k |-> "boundTarget", i |-> 0])
        b3 == constant(b2, [k |-> "boundThis", i |-> 0])
        b4 == fallible(b3)
        r == inlineBoundFunctionArgs(b4, 1, <<>>)
        argv == r.argv \o [i \in 1..nativeCallInfo.argc |-> ArgRef(i - 1)]
        b5 == makeCall(argLoop(r.b), last(b2), last(b3), argv)
    IN  IF failed(b4) THEN Error(b4, "fatal")
        ELSE IF failed(b5) THEN Error(b5, "fatal")
        ELSE Inlined(b5)

\* ------------------------------------------------------------ Atomic natives

\* preconditions that pair every integer element type with an Int32 result
atomicsMeetsPreconditionsAnyInteger(b, ci) ==
    /\ getArg(ci, 0).type = "Object"
    /\ getArg(ci, 1).type = "Int32"
    /\ getArg(ci, 0).hasTypes
    /\ getArg(ci, 0).sharedType
           \in {"Int8", "Uint8", "Int16", "Uint16", "Int32", "Uint32", "Uint8Clamped"}
    /\ b.env.returnType = "Int32"

atomicsMeetsPreconditions(b, ci) ==
    IF getArg(ci, 0).type # "Object" THEN FALSE
    ELSE IF getArg(ci, 1).type # "Int32" THEN FALSE
    ELSE IF ~getArg(ci, 0).hasTypes THEN FALSE
    ELSE IF getArg(ci, 0).sharedType \in {"Int8", "Uint8", "Int16", "Uint16", "Int32"}
    THEN b.env.returnType = "Int32"
    ELSE IF getArg(ci, 0).sharedType = "Uint32" THEN b.env.returnType = "Double"
    ELSE FALSE

\* why atomicsMeetsPreconditions said no
atomicsRejection(b, ci) ==
    IF getArg(ci, 0).type # "Object" \/ getArg(ci, 1).type # "Int32" THEN "type"
    ELSE IF ~getArg(ci, 0).hasTypes THEN "shape"
    ELSE IF getArg(ci, 0).sharedType \in {"Int8", "Uint8", "Int16", "Uint16", "Int32", "Uint32"}
    THEN "returnType"
    ELSE "shape"

\* atomicsCheckBounds: addTypedArrayLengthAndData(obj, DoBoundsCheck, ...)
\* adds the length, the bounds check on the index and the elements vector
atomicsCheckBounds(b) ==
    LET b1 == add(b, "MTypedArrayLength", <<ArgRef(0)>>)
        b2 == addBoundsCheck(b1, ArgRef(1), last(b1))
        b3 == add(b2, "MTypedArrayElements", <<ArgRef(0)>>)
    IN  [b |-> b3, elements |-> last(b3), index |-> last(b2)]

\* MTruncateToInt32 of a double operand, the operand itself otherwise
atomicsToWrite(b, ci, i) ==
    IF getArg(ci, i).type = "Double"
    THEN [b |-> add(b, "MTruncateToInt32", <<ArgRef(i)>>), v |-> NodeRef(Len(b.nodes) + 1)]
    ELSE [b |-> b, v |-> ArgRef(i)]

inlineAtomicsCompareExchange(b, ci) ==
    IF ci.argc # 4 \/ ci.constructing
    THEN NotInlined(b, IF ci.argc # 4 THEN "arity" ELSE "constructing")
    ELSE IF ~atomicsMeetsPreconditions(b, ci) THEN NotInlined(b, atomicsRejection(b, ci))
    ELSE IF getArg(ci, 2).type \notin {"Int32", "Double"} THEN NotInlined(b, "type")
    ELSE IF getArg(ci, 3).type \notin {"Int32", "Double"} THEN NotInlined(b, "type")
    ELSE
    LET c == atomicsCheckBounds(setImplicitlyUsedUnchecked(b))
        o == atomicsToWrite(c.b, ci, 2)
        n == atomicsToWrite(o.b, ci, 3)
    IN  Inlined(addPush(n.b, "MCompareExchangeTypedArrayElement",
                        <<c.elements, c.index, o.v, n.v>>))

inlineAtomicsLoad(b, ci) ==
    IF ci.argc # 2 \/ ci.constructing
    THEN NotInlined(b, IF ci.argc # 2 THEN "arity" ELSE "constructing")
    ELSE IF ~atomicsMeetsPreconditions(b, ci) THEN NotInlined(b, atomicsRejection(b, ci))
    ELSE
    LET c == atomicsCheckBounds(setImplicitlyUsedUnchecked(b))
    IN  Inlined(addPush(c.b, "MLoadTypedArrayElement", <<c.elements, c.index>>))

inlineAtomicsStore(b, ci) ==
    IF ci.argc # 3 \/ ci.constructing
    THEN NotInlined(b, IF ci.argc # 3 THEN "arity" ELSE "constructing")
    ELSE IF ~atomicsMeetsPreconditions(b, ci) THEN NotInlined(b, atomicsRejection(b, ci))
    ELSE IF getArg(ci, 2).type \notin {"Int32", "Double"} THEN NotInlined(b, "type")
    ELSE
    LET c == atomicsCheckBounds(setImplicitlyUsedUnchecked(b))
        w == atomicsToWrite(c.b, ci, 2)
        b1 == add(w.b, "MStoreTypedArrayElement", <<c.elements, c.index, w.v>>)
    IN  Inlined(push(b1, ArgRef(2)))

\* Faulty variant: the barrier is added but no result value is pushed.
inlineAtomicsFenceNoResult(b, ci) ==
    IF ci.argc # 0 \/ ci.constructing
    THEN NotInlined(b, IF ci.argc # 0 THEN "arity" ELSE "constructing")
    ELSE Inlined(add(setImplicitlyUsedUnchecked(b), "MMemoryBarrier", <<>>))

inlineAtomicsFence(b, ci) ==
    IF ci.argc # 0 \/ ci.constructing
    THEN NotInlined(b, IF ci.argc # 0 THEN "arity" ELSE "constructing")
    ELSE Inlined(pushConstant(add(setImplicitlyUsedUnchecked(b), "MMemoryBarrier", <<>>),
                              UndefinedValue))

inlineAtomicsBinop(b, ci) ==
    IF ci.argc # 3 \/ ci.constructing
    THEN NotInlined(b, IF ci.argc # 3 THEN "arity" ELSE "constructing")
    ELSE IF ~atomicsMeetsPreconditions(b, ci) THEN NotInlined(b, atomicsRejection(b, ci))
    ELSE IF getArg(ci, 2).type \notin {"Int32", "Double"} THEN NotInlined(b, "type")
    ELSE
    LET c == atomicsCheckBounds(setImplicitlyUsedUnchecked(b))
        w == atomicsToWrite(c.b, ci, 2)
    IN  Inlined(addPush(w.b, "MAtomicTypedArrayElementBinop", <<c.elements, c.index, w.v>>))

\* --------------------------------------------------- getters and class hooks

\* addTypedArrayLength(obj)
addTypedArrayLength(b) == add(b, "MTypedArrayLength", <<ThisRef>>)

inlineConstructTypedObject(b, ci) ==
    IF ci.argc # 0 THEN NotInlined(b, "arity")
    ELSE IF b.env.descrTooBig THEN NotInlined(b, "shape")
    ELSE IF b.env.template \in {"none", "outline"} THEN NotInlined(b, "template")
    ELSE IF b.env.template # "match" THEN NotInlined(b, "template")
    ELSE Inlined(addPush(setImplicitlyUsedUnchecked(b), "MNewTypedObject", <<>>))

inlineNativeGetter(b, ci) ==
    LET thisTypes == ci.thisArg
    IN
    IF ~b.inlineNative THEN NotInlined(b, "disabled")
    ELSE IF /\ thisTypes.hasTypes
            /\ thisTypes.typedArrayType # "TypeMax"
            /\ b.env.isLengthGetter = "typedArray"
    THEN Inlined(push(addTypedArrayLength(b), NodeRef(Len(b.nodes) + 1)))
    ELSE IF /\ thisTypes.hasTypes
            /\ thisTypes.sharedType # "TypeMax"
            /\ b.env.isLengthGetter = "shared"
    THEN Inlined(push(addTypedArrayLength(b), NodeRef(Len(b.nodes) + 1)))
    ELSE NotInlined(b, "shape")

inlineNonFunctionCall(b, ci) ==
    IF ci.constructing /\ b.env.constructHook = "constructSized"
    THEN inlineConstructTypedObject(b, ci)
    ELSE NotInlined(b, "hook")

MathFunctionNatives ==
    {"math_sin", "math_cos", "math_exp", "math_tan", "math_log", "math_atan",
     "math_asin", "math_acos", "math_log10", "math_log2", "math_log1p", "math_expm1",
     "math_cosh", "math_sinh", "math_tanh", "math_acosh", "math_asinh", "math_atanh",
     "math_sign", "math_trunc", "math_cbrt"}

AtomicsBinopNatives == {"atomics_add", "atomics_sub", "atomics_and", "atomics_or", "atomics_xor"}

inlineNativeCall(b, ci, native) ==
    IF ~b.inlineNative THEN NotInlined(b, "disabled")
    \* Atomic natives.
    ELSE IF native = "atomics_compareExchange" THEN inlineAtomicsCompareExchange(b, ci)
    ELSE IF native = "atomics_load" THEN inlineAtomicsLoad(b, ci)
    ELSE IF native = "atomics_store" THEN inlineAtomicsStore(b, ci)
    ELSE IF native = "atomics_fence" THEN inlineAtomicsFence(b, ci)
    ELSE IF native \in AtomicsBinopNatives THEN inlineAtomicsBinop(b, ci)
    \* Array natives.
    ELSE IF native = "js_Array" THEN inlineArray(b, ci)
    ELSE IF native = "array_pop" THEN inlineArrayPopShift(b, ci, "Pop")
    ELSE IF native = "array_shift" THEN inlineArrayPopShift(b, ci, "Shift")
    ELSE IF native = "array_push" THEN inlineArrayPush(b, ci)
    ELSE IF native = "array_concat" THEN inlineArrayConcat(b, ci)
    ELSE IF native = "array_join" THEN inlineArrayJoin(b, ci)
    ELSE IF native = "array_splice" THEN inlineArraySplice(b, ci)
    \* Math natives.
    ELSE IF native = "math_abs" THEN inlineMathAbs(b, ci)
    ELSE IF native = "math_floor" THEN inlineMathFloor(b, ci)
    ELSE IF native = "math_ceil" THEN inlineMathCeil(b, ci)
    ELSE IF native = "math_clz32" THEN inlineMathClz32(b, ci)
    ELSE IF native = "math_round" THEN inlineMathRound(b, ci)
    ELSE IF native = "math_sqrt" THEN inlineMathSqrt(b, ci)
    ELSE IF native = "math_atan2" THEN inlineMathAtan2(b, ci)
    ELSE IF native = "math_hypot" THEN inlineMathHypot(b, ci)
    ELSE IF native = "math_max" THEN inlineMathMinMax(b, ci, TRUE)
    ELSE IF native = "math_min" THEN inlineMathMinMax(b, ci, FALSE)
    ELSE IF native = "math_pow" THEN inlineMathPow(b, ci)
    ELSE IF native = "math_random" THEN inlineMathRandom(b, ci)
    ELSE IF native = "math_imul" THEN inlineMathImul(b, ci)
    ELSE IF native = "math_fround" THEN inlineMathFRound(b, ci)
    ELSE IF native \in MathFunctionNatives THEN inlineMathFunction(b, ci, native)
    \* String natives.
    ELSE IF native = "js_String" THEN inlineStringObject(b, ci)
    ELSE IF native = "str_split" THEN inlineStringSplit(b, ci)
    ELSE IF native = "js_str_charCodeAt" THEN inlineStrCharCodeAt(b, ci)
    ELSE IF native = "str_fromCharCode" THEN inlineStrFromCharCode(b, ci)
    ELSE IF native = "js_str_charAt" THEN inlineStrCharAt(b, ci)
    ELSE IF native = "str_replace" THEN inlineStrReplace(b, ci)
    \* RegExp natives.
    ELSE IF native = "regexp_exec" /\ b.env.resultEscapes THEN inlineRegExpExec(b, ci)
    ELSE IF native = "regexp_exec" /\ ~b.env.resultEscapes THEN inlineRegExpTest(b, ci)
    ELSE IF native = "regexp_test" THEN inlineRegExpTest(b, ci)
    \* Array intrinsics.
    ELSE IF native = "intrinsic_UnsafePutElements" THEN inlineUnsafePutElements(b, ci)
    ELSE IF native = "intrinsic_NewDenseArray" THEN inlineNewDenseArray(b, ci)
    \* Slot intrinsics.
    ELSE IF native = "intrinsic_UnsafeSetReservedSlot" THEN inlineUnsafeSetReservedSlot(b, ci)
    ELSE IF native = "intrinsic_UnsafeGetReservedSlot" THEN inlineUnsafeGetReservedSlot(b, ci)
    \* Parallel intrinsics.
    ELSE IF native \in {"intrinsic_ShouldForceSequential", "intrinsic_InParallelSection"}
    THEN inlineForceSequentialOrInParallelSection(b, ci)
    ELSE IF native = "intrinsic_ForkJoinGetSlice" THEN inlineForkJoinGetSlice(b, ci)
    \* Utility intrinsics.
    ELSE IF native = "intrinsic_IsCallable" THEN inlineIsCallable(b, ci)
    ELSE IF native = "intrinsic_HaveSameClass" THEN inlineHaveSameClass(b, ci)
    ELSE IF native = "intrinsic_ToObject" THEN inlineToObject(b, ci)
    ELSE IF native = "intrinsic_IsObject" THEN inlineIsObject(b, ci)
    ELSE IF native = "intrinsic_ToInteger" THEN inlineToInteger(b, ci)
    ELSE IF native = "intrinsic_ToString" THEN inlineToString(b, ci)
    ELSE IF native = "intrinsic_IsConstructing" THEN inlineIsConstructing(b, ci)
    \* TypedObject intrinsics.
    ELSE IF native = "intrinsic_ObjectIsTypedObject"
    THEN inlineHasClass(b, ci, "OutlineTransparentTypedObject", "OutlineOpaqueTypedObject",
                        "InlineTransparentTypedObject", "InlineOpaqueTypedObject")
    ELSE IF native = "intrinsic_ObjectIsTransparentTypedObject"
    THEN inlineHasClass(b, ci, "OutlineTransparentTypedObject",
                        "InlineTransparentTypedObject", "null", "null")
    ELSE IF native = "intrinsic_ObjectIsOpaqueTypedObject"
    THEN inlineHasClass(b, ci, "OutlineOpaqueTypedObject", "InlineOpaqueTypedObject",
                        "null", "null")
    ELSE IF native = "intrinsic_ObjectIsTypeDescr" THEN inlineObjectIsTypeDescr(b, ci)
    ELSE IF native = "intrinsic_TypeDescrIsSimpleType"
    THEN inlineHasClass(b, ci, "ScalarTypeDescr", "ReferenceTypeDescr", "null", "null")
    ELSE IF native = "intrinsic_TypeDescrIsArrayType"
    THEN inlineHasClass(b, ci, "SizedArrayTypeDescr", "UnsizedArrayTypeDescr", "null", "null")
    ELSE IF native = "intrinsic_TypeDescrIsSizedArrayType"
    THEN inlineHasClass(b, ci, "SizedArrayTypeDescr", "null", "null", "null")
    ELSE IF native = "intrinsic_TypeDescrIsUnsizedArrayType"
    THEN inlineHasClass(b, ci, "UnsizedArrayTypeDescr", "null", "null", "null")
    ELSE IF native = "intrinsic_SetTypedObjectOffset" THEN inlineSetTypedObjectOffset(b, ci)
    \* Testing Functions
    ELSE IF native = "testingFunc_inParallelSection"
    THEN inlineForceSequentialOrInParallelSection(b, ci)
    ELSE IF native = "testingFunc_bailout" THEN inlineBailout(b, ci)
    ELSE IF native = "testingFunc_assertFloat32" THEN inlineAssertFloat32(b, ci)
    \* Bound function
    ELSE IF native = "CallOrConstructBoundFunction" THEN inlineBoundFunction(b, ci)
    ELSE NotInlined(b, "unknown")

\* ------------------------------------------------------ enumerated call sites

Site(ci, e) == [ci |-> ci, env |-> e]

Typed(T) == {Operand(t) : t \in T}

Receiver == Operand("Object")

\* call sites that miss the argument counts in ok
WrongArity(ok) ==
    {Site(CallInfo(c, Receiver, [i \in 1..n |-> Operand("Int32")]),
          [DefaultEnv EXCEPT !.returnType = "Int32"]) :
        c \in BOOLEAN, n \in (0..MaxArgc) \ ok}

Failures == 0..MaxFailAt

\* numeric constants: (num, half)
NumConst(t, n, h) == [Operand(t) EXCEPT !.isConstant = TRUE, !.num = n, !.half = h]

\* receivers of the array natives: what the type-set knows of them
ArrayFlagChoices ==
    {{}, {"SPARSE_INDEXES"}, {"LENGTH_OVERFLOW"}, {"ITERATED"}, {"NON_PACKED"},
     {"COPY_ON_WRITE"}}

ArrayElems == ObjectType(FALSE, FALSE, {"Int32", "String"})

ArrayReceivers ==
    {[Receiver EXCEPT !.knownClass = k, !.flags = f, !.objects = <<ArrayElems>>] :
        k \in {"Array", "RegExp", "none"}, f \in ArrayFlagChoices}
    \cup {[Receiver EXCEPT !.hasTypes = FALSE], Operand("Value")}

SitesAtomics(n) ==
    LET Arrays == {[Receiver EXCEPT !.sharedType = t] :
                      t \in {"Int8", "Int32", "Uint32", "Uint8Clamped", "Float64", "TypeMax"}}
                  \cup {[Receiver EXCEPT !.hasTypes = FALSE], Operand("Int32")}
        Values == Typed({"Int32", "Double", "String"})
        Rest == [1..(n - 2) -> Values]
    IN  {Site(CallInfo(FALSE, Receiver, <<a, i>> \o t), [DefaultEnv EXCEPT !.returnType = r]) :
            a \in Arrays, i \in Typed({"Int32", "Double"}), t \in Rest,
            r \in {"Int32", "Double", "Value"}}
        \cup WrongArity({})

SitesFence ==
    {Site(CallInfo(c, Receiver, [i \in 1..n |-> Operand("Int32")]), DefaultEnv) :
        c \in BOOLEAN, n \in 0..MaxArgc}

SitesArray ==
    LET Lengths == {NumConst("Int32", n, FALSE) : n \in {-1, 0, 3, 2049, NELEMENTS_LIMIT}}
                   \cup Typed({"Int32", "Double"})
        E(t, len, el, u, conv, ten, f) ==
            [DefaultEnv EXCEPT !.template = t, !.templateLength = len,
                               !.templateElemTypes = el, !.templateUnknownProps = u,
                               !.returnDoubleConversion = conv, !.tenured = ten, !.failAt = f]
    IN  {Site(CallInfo(c, Receiver, <<>>),
              E(t, 0, {}, FALSE, "DontConvertToDoubles", FALSE, 0)) :
            c \in BOOLEAN, t \in {"none", "match"}}
        \cup {Site(CallInfo(FALSE, Receiver, <<a>>),
                   E(t, len, {}, FALSE, "DontConvertToDoubles", FALSE, 0)) :
                a \in Lengths, t \in {"none", "match"}, len \in {0, 3, 2049}}
        \cup UNION {{Site(CallInfo(FALSE, Receiver, args), E("match", n, el, u, conv, ten, f)) :
                        args \in [1..n -> Typed({"Int32", "String"})],
                        el \in {{"Int32"}, {"Int32", "String"}}, u \in BOOLEAN,
                        conv \in {"DontConvertToDoubles", "AlwaysConvertToDoubles"},
                        ten \in BOOLEAN, f \in Failures} : n \in 2..MaxArgc}

SitesArrayPopShift ==
    {Site(CallInfo(c, this, <<>>),
          [DefaultEnv EXCEPT !.returnType = r, !.protoIndexed = p]) :
        c \in BOOLEAN, this \in ArrayReceivers, r \in {"Undefined", "Null", "Int32", "Value"},
        p \in BOOLEAN}
    \cup {Site(CallInfo(FALSE, [Receiver EXCEPT !.knownClass = "Array", !.flags = fl], <<>>),
               [DefaultEnv EXCEPT !.returnType = r, !.readBarrier = rb, !.failAt = f]) :
            fl \in {{}, {"NON_PACKED"}}, r \in {"Undefined", "Int32", "Value"},
            rb \in BOOLEAN, f \in Failures}
    \cup WrongArity({0})

SitesArraySplice ==
    {Site(CallInfo(c, this, <<Operand(a[1]), Operand(a[2])>>),
          [DefaultEnv EXCEPT !.returnType = r, !.isPopped = p]) :
        c \in BOOLEAN, this \in ArrayReceivers,
        a \in {<<"Int32", "Int32">>, <<"Double", "Int32">>, <<"Int32", "Double">>},
        r \in {"Object", "Value"}, p \in BOOLEAN}
    \cup {Site(CallInfo(FALSE, [Receiver EXCEPT !.knownClass = "Array"],
                        <<Operand("Int32"), Operand("Int32")>>),
               [DefaultEnv EXCEPT !.returnType = "Object", !.isPopped = TRUE, !.failAt = f]) :
            f \in Failures}
    \cup WrongArity({2})

SitesArrayJoin ==
    {Site(CallInfo(c, this, <<a>>), [DefaultEnv EXCEPT !.returnType = r]) :
        c \in BOOLEAN, this \in ArrayReceivers, a \in Typed({"String", "Int32"}),
        r \in {"String", "Value"}}
    \cup WrongArity({1})

SitesArrayPush ==
    {Site(CallInfo(c, this, <<a>>),
          [DefaultEnv EXCEPT !.returnType = r, !.protoIndexed = p]) :
        c \in BOOLEAN, this \in ArrayReceivers, a \in Typed({"Int32", "Object"}),
        r \in {"Int32", "Double"}, p \in BOOLEAN}
    \cup {Site(CallInfo(FALSE,
                        [Receiver EXCEPT !.knownClass = "Array", !.flags = fl,
                                         !.conversion = conv],
                        <<[a EXCEPT !.writeBarrier = wb, !.postBarrier = pb]>>),
               [DefaultEnv EXCEPT !.returnType = "Int32", !.failAt = f]) :
            fl \in {{}, {"COPY_ON_WRITE"}, {"ITERATED"}}, a \in Typed({"Int32", "Object"}),
            conv \in {"DontConvertToDoubles", "AlwaysConvertToDoubles",
                      "MaybeConvertToDoubles", "AmbiguousDoubleConversion"},
            wb \in BOOLEAN, pb \in BOOLEAN, f \in Failures}
    \cup WrongArity({1})

SitesArrayConcat ==
    LET ObjLists == {<<>>, <<ObjectType(FALSE, FALSE, {"Int32"})>>,
                     <<ObjectType(FALSE, FALSE, {"Int32", "String"})>>,
                     <<ObjectType(FALSE, TRUE, {})>>, <<ObjectType(TRUE, FALSE, {})>>,
                     <<ObjectType(TRUE, FALSE, {}), ObjectType(FALSE, FALSE, {"String"})>>,
                     <<ObjectType(FALSE, FALSE, {"Int32"}), ObjectType(FALSE, FALSE, {"Int32"})>>}
        Arrays == {[Receiver EXCEPT !.knownClass = "Array", !.objects = o] : o \in ObjLists}
        Args == {a \in ArrayReceivers : a.flags \in {{}, {"SPARSE_INDEXES"}, {"ITERATED"}}}
    IN  {Site(CallInfo(FALSE, this, <<a>>),
              [DefaultEnv EXCEPT !.returnType = "Object", !.template = t,
                                 !.returnHasThisType = h, !.failAt = f]) :
            this \in Arrays, a \in Arrays, t \in {"none", "match", "mismatch"},
            h \in BOOLEAN, f \in 0..1}
        \cup {Site(CallInfo(c, this, <<a>>),
                   [DefaultEnv EXCEPT !.returnType = r, !.template = "match",
                                      !.protoIndexed = p]) :
                c \in BOOLEAN, this \in ArrayReceivers, a \in Args,
                r \in {"Object", "Value"}, p \in BOOLEAN}
        \cup WrongArity({1})

\* one-operand natives: every arity, the arguments all of one type
SitesUniform(argTypes, retTypes) ==
    {Site(CallInfo(c, Receiver, [i \in 1..n |-> Operand(t)]),
          [DefaultEnv EXCEPT !.returnType = r]) :
        c \in BOOLEAN, n \in 0..MaxArgc, t \in argTypes, r \in retTypes}

SitesMathUnary ==
    SitesUniform({"Int32", "Double", "Float32", "String"}, {"Int32", "Double", "Value"})

SitesMathFRound ==
    SitesMathUnary
    \cup {Site(CallInfo(FALSE, Receiver, <<Operand(t)>>),
               [DefaultEnv EXCEPT !.returnTypesEmpty = TRUE]) : t \in {"Double", "String"}}

\* two-operand natives: every arity up to three, the types mixed
SitesMathBinary ==
    UNION {{Site(CallInfo(c, Receiver, args), [DefaultEnv EXCEPT !.returnType = r]) :
               c \in BOOLEAN, args \in [1..n -> Typed({"Int32", "Double", "String"})],
               r \in {"Int32", "Double", "Value"}} : n \in 0..3}

SitesMathPow ==
    SitesMathBinary
    \cup {Site(CallInfo(FALSE, Receiver, <<Operand(t), NumConst(pt, n, h)>>),
               [DefaultEnv EXCEPT !.returnType = r]) :
            t \in {"Int32", "Double"}, pt \in {"Int32", "Double"}, n \in -1..5, h \in BOOLEAN,
            r \in {"Int32", "Double"}}

MinMaxPlain == Typed({"Int32", "Double"})

MinMaxSpecial ==
    {Operand("String"), NumConst("Double", INT32_MAX, FALSE), NumConst("Double", INT32_MIN, FALSE),
     NumConst("Double", 0, TRUE), NumConst("Double", 100000000, FALSE)}

\* Math.min / Math.max operand lists: at most one operand that is not a
\* plain Int32 or Double
MinMaxArgs(n) ==
    {a \in [1..n -> MinMaxPlain \cup MinMaxSpecial] :
        Cardinality({i \in 1..n : a[i] \in MinMaxSpecial}) <= 1}

SitesMathMinMax ==
    UNION {{Site(CallInfo(FALSE, Receiver, args),
                 [DefaultEnv EXCEPT !.returnType = r, !.failAt = f]) :
               args \in MinMaxArgs(n), r \in {"Int32", "Double"}, f \in Failures} :
           n \in 0..MaxArgc}
    \cup {Site(CallInfo(c, Receiver, <<Operand("Int32"), Operand("Int32")>>),
               [DefaultEnv EXCEPT !.returnType = r]) :
            c \in BOOLEAN, r \in {"Int32", "Value"}}

MaybeObject == {[Operand("Value") EXCEPT !.mayBe = m] : m \in {{}, {"Object"}, {"String"}}}

SitesStringObject ==
    {Site(CallInfo(c, Receiver, <<a>>), [DefaultEnv EXCEPT !.template = t, !.failAt = f]) :
        c \in BOOLEAN, a \in Typed({"String", "Object"}) \cup MaybeObject,
        t \in {"none", "match"}, f \in Failures}
    \cup WrongArity({1})

SitesStringSplit ==
    {Site(CallInfo(c, this, <<a>>),
          [DefaultEnv EXCEPT !.template = t, !.templateUnknownProps = u,
                             !.templateHasElemTypes = h, !.templateElemTypes = el]) :
        c \in BOOLEAN, this \in Typed({"String", "Object"}), a \in Typed({"String", "Int32"}),
        t \in {"none", "match"}, u \in BOOLEAN, h \in BOOLEAN, el \in {{}, {"String"}}}
    \cup WrongArity({1})

\* the string "AB" as an MConstant, linear or a rope
ConstString(linear) ==
    [Operand("String") EXCEPT !.isConstant = TRUE, !.str = <<65, 66>>, !.isLinear = linear]

SitesStrCharCodeAt ==
    {Site(CallInfo(c, this, <<a>>), [DefaultEnv EXCEPT !.returnType = r]) :
        c \in BOOLEAN,
        this \in Typed({"String", "Value", "Object"}) \cup {ConstString(TRUE), ConstString(FALSE)},
        a \in Typed({"Int32", "Double", "String"})
              \cup {NumConst("Int32", n, FALSE) : n \in -1..2}
              \cup {NumConst("Double", 1, FALSE)},
        r \in {"Int32", "Value"}}
    \cup WrongArity({1})

SitesStrCharAt ==
    {Site(CallInfo(c, this, <<a>>), [DefaultEnv EXCEPT !.returnType = r]) :
        c \in BOOLEAN, this \in Typed({"String", "Value"}) \cup {ConstString(TRUE)},
        a \in Typed({"Int32", "Double", "String"}) \cup {NumConst("Int32", 1, FALSE)},
        r \in {"String", "Value"}}
    \cup WrongArity({1})

RegExpReceivers ==
    {[Receiver EXCEPT !.knownClass = k] : k \in {"RegExp", "Array", "none"}}
    \cup {[Receiver EXCEPT !.knownClass = "RegExp", !.hasTypes = FALSE], Operand("Value"),
          Operand("String")}

SitesStrReplace ==
    {Site(CallInfo(c, this, <<a0, a1>>), [DefaultEnv EXCEPT !.returnType = r, !.failAt = f]) :
        c \in BOOLEAN, this \in Typed({"String", "Object"}), a0 \in RegExpReceivers,
        a1 \in Typed({"String", "Int32"}), r \in {"String", "Value"}, f \in Failures}
    \cup WrongArity({2})

SitesRegExp ==
    {Site(CallInfo(c, this, <<a>>),
          [DefaultEnv EXCEPT !.returnType = r, !.resultEscapes = esc, !.failAt = f]) :
        c \in BOOLEAN, this \in RegExpReceivers,
        a \in Typed({"String", "Object"}) \cup MaybeObject,
        r \in {"Boolean", "Value"}, esc \in BOOLEAN, f \in Failures}
    \cup WrongArity({1})

\* one (array, index, element) group of UnsafePutElements
PutGroup(t, acc, it, wb) ==
    <<[Operand(t) EXCEPT !.access = acc], Operand(it),
      [Operand("Int32") EXCEPT !.writeBarrier = wb]>>

PutGroups ==
    {PutGroup("Object", "dense", "Int32", FALSE), PutGroup("Object", "dense", "Int32", TRUE),
     PutGroup("Object", "typedArray", "Int32", FALSE),
     PutGroup("Object", "typedObject", "Double", TRUE),
     PutGroup("Object", "none", "Int32", FALSE), PutGroup("Object", "dense", "String", FALSE),
     PutGroup("Value", "dense", "Int32", FALSE)}

RECURSIVE PutArgs(_)
PutArgs(g) == IF g = 0 THEN {<<>>} ELSE {a \o t : a \in PutArgs(g - 1), t \in PutGroups}

SitesUnsafePutElements ==
    UNION {{Site(CallInfo(c, Receiver, args), [DefaultEnv EXCEPT !.failAt = f]) :
               c \in BOOLEAN, args \in PutArgs(g), f \in Failures} : g \in 0..MaxGroups}
    \cup WrongArity({0, 3})

SitesNewDenseArray ==
    {Site(CallInfo(c, Receiver, <<a>>),
          [DefaultEnv EXCEPT !.returnType = r, !.returnObjectCount = n, !.template = t]) :
        c \in BOOLEAN, a \in Typed({"Int32", "Double"}), r \in {"Object", "Value"},
        n \in 1..2, t \in {"none", "match", "mismatch"}}
    \cup WrongArity({1})

SlotOperands ==
    Typed({"Int32", "Double"}) \cup {NumConst("Int32", n, FALSE) : n \in 0..1}

SitesUnsafeSetReservedSlot ==
    {Site(CallInfo(c, Receiver, <<o, slot, [Operand(vt) EXCEPT !.postBarrier = pb]>>),
          [DefaultEnv EXCEPT !.returnType = r]) :
        c \in BOOLEAN, o \in Typed({"Object", "Value"}), slot \in SlotOperands,
        vt \in {"Int32", "Object"}, pb \in BOOLEAN, r \in {"Undefined", "Value"}}
    \cup WrongArity({3})

SitesUnsafeGetReservedSlot ==
    {Site(CallInfo(c, Receiver, <<o, slot>>),
          [DefaultEnv EXCEPT !.returnType = r, !.failAt = f]) :
        c \in BOOLEAN, o \in Typed({"Object", "Value"}), slot \in SlotOperands,
        r \in {"Value", "Int32", "Object"}, f \in Failures}
    \cup WrongArity({2})

\* the self-hosted code calls ForkJoinGetSlice with one Int32 argument
SitesForkJoinGetSlice ==
    {Site(CallInfo(FALSE, Receiver, <<Operand("Int32")>>),
          [DefaultEnv EXCEPT !.returnType = r, !.allowForkJoinGetSlice = a]) :
        r \in {"Int32", "Value"}, a \in BOOLEAN}

ClassedObjects ==
    {[Receiver EXCEPT !.knownClass = k] :
        k \in {"none", "Function", "Proxy", "Array", "InlineOpaqueTypedObject",
               "OutlineTransparentTypedObject", "ScalarTypeDescr", "SizedArrayTypeDescr",
               "UnsizedArrayTypeDescr"}}
    \cup {[Receiver EXCEPT !.knownClass = "Function", !.hasTypes = FALSE], Operand("String")}

SitesClassTest ==
    {Site(CallInfo(c, Receiver, <<a>>), [DefaultEnv EXCEPT !.returnType = r]) :
        c \in BOOLEAN, a \in ClassedObjects, r \in {"Boolean", "Value"}}
    \cup WrongArity({1})

SitesHaveSameClass ==
    {Site(CallInfo(c, Receiver, <<a0, a1>>), DefaultEnv) :
        c \in BOOLEAN, a0 \in ClassedObjects, a1 \in ClassedObjects}
    \cup WrongArity({2})

SitesConversion ==
    SitesUniform({"Object", "Int32"}, {"Object", "Boolean", "String", "Value"})

SitesToInteger ==
    {Site(CallInfo(c, Receiver, <<a>>), [DefaultEnv EXCEPT !.returnType = r]) :
        c \in BOOLEAN, a \in Typed({"Int32", "Double", "Object", "String"}) \cup MaybeObject,
        r \in {"Int32", "Value"}}
    \cup WrongArity({1})

\* IsConstructing is called without arguments and never with new
SitesIsConstructing ==
    {Site(CallInfo(FALSE, Receiver, <<>>),
          [DefaultEnv EXCEPT !.returnType = r, !.inliningDepth = d, !.outerConstructing = o]) :
        r \in {"Boolean", "Value"}, d \in 0..1, o \in BOOLEAN}

DescrObjects ==
    {[Operand(t) EXCEPT !.forAll = fa, !.hasTypes = h] :
        t \in {"Object", "Value"}, fa \in {"MIXED", "ALL_TRUE", "ALL_FALSE"}, h \in BOOLEAN}

SitesObjectIsTypeDescr ==
    {Site(CallInfo(c, Receiver, <<a>>), [DefaultEnv EXCEPT !.returnType = r]) :
        c \in BOOLEAN, a \in DescrObjects, r \in {"Boolean", "Value"}}
    \cup WrongArity({1})

SitesSetTypedObjectOffset ==
    {Site(CallInfo(c, Receiver, <<a, o>>), [DefaultEnv EXCEPT !.returnType = r]) :
        c \in BOOLEAN, a \in DescrObjects, o \in Typed({"Int32", "Double"}),
        r \in {"Undefined", "Value"}}
    \cup WrongArity({2})

\* assertFloat32(value, mustBeFloat32): the second argument is a constant
SitesAssertFloat32 ==
    {Site(CallInfo(FALSE, Receiver,
                   <<Operand(t), [Operand("Boolean") EXCEPT !.isConstant = TRUE, !.num = n]>>),
          DefaultEnv) : t \in {"Float32", "Double"}, n \in 0..1}

BoundValues == {"primitive", "tenuredObject", "nurseryObject"}

SitesBoundFunction ==
    UNION {{Site(CallInfo(c, Receiver, <<Operand("Int32")>>),
                 [DefaultEnv EXCEPT !.boundTarget = bt, !.boundTargetCtor = ctor,
                                    !.boundTargetNursery = nur, !.boundArgs = ba,
                                    !.boundArgCount = k,
                                    !.boundThis = th]) :
               c \in BOOLEAN, bt \in {"function", "proxy"}, ctor \in BOOLEAN,
               nur \in BOOLEAN, ba \in [1..k -> BoundValues], th \in BoundValues} :
           k \in 0..2}
    \cup UNION {{Site(CallInfo(FALSE, Receiver, [i \in 1..n |-> Operand("Int32")]),
                      [DefaultEnv EXCEPT !.boundArgs = ba, !.boundArgCount = k, !.failAt = f]) :
                    n \in 0..2, ba \in [1..k -> {"primitive", "tenuredObject"}],
                    f \in Failures} : k \in 0..2}
    \* bind.apply with the largest argument list, then called with two more
    \cup {Site(CallInfo(FALSE, Receiver, <<Operand("Int32"), Operand("Int32")>>),
               [DefaultEnv EXCEPT !.boundArgCount = ARGS_LENGTH_MAX - 1])}

SitesGetter ==
    {Site(CallInfo(FALSE, [Receiver EXCEPT !.typedArrayType = ta, !.sharedType = sh,
                                          !.hasTypes = h], <<>>),
          [DefaultEnv EXCEPT !.isLengthGetter = g]) :
        ta \in {"TypeMax", "Int32"}, sh \in {"TypeMax", "Uint8"}, h \in BOOLEAN,
        g \in {"none", "typedArray", "shared"}}

SitesNonFunction ==
    {Site(CallInfo(c, Receiver, [i \in 1..n |-> Operand("Int32")]),
          [DefaultEnv EXCEPT !.constructHook = h, !.descrTooBig = big, !.template = t]) :
        c \in BOOLEAN, n \in 0..1, h \in {"other", "constructSized"}, big \in BOOLEAN,
        t \in {"none", "outline", "match", "mismatch"}}

HasClassNatives ==
    {"intrinsic_ObjectIsTypedObject", "intrinsic_ObjectIsTransparentTypedObject",
     "intrinsic_ObjectIsOpaqueTypedObject", "intrinsic_TypeDescrIsSimpleType",
     "intrinsic_TypeDescrIsArrayType", "intrinsic_TypeDescrIsSizedArrayType",
     "intrinsic_TypeDescrIsUnsizedArrayType"}

\* the natives the engine is asked about; the last one has no specializer
Natives ==
    {"atomics_compareExchange", "atomics_load", "atomics_store", "atomics_fence",
     "js_Array", "array_pop", "array_shift", "array_push", "array_concat", "array_join",
     "array_splice", "math_abs", "math_floor", "math_ceil", "math_clz32", "math_round",
     "math_sqrt", "math_atan2", "math_hypot", "math_max", "math_min", "math_pow",
     "math_random", "math_imul", "math_fround", "js_String", "str_split",
     "js_str_charCodeAt", "str_fromCharCode", "js_str_charAt", "str_replace",
     "regexp_exec", "regexp_test", "intrinsic_UnsafePutElements", "intrinsic_NewDenseArray",
     "intrinsic_UnsafeSetReservedSlot", "intrinsic_UnsafeGetReservedSlot",
     "intrinsic_ShouldForceSequential", "intrinsic_InParallelSection",
     "intrinsic_ForkJoinGetSlice", "intrinsic_IsCallable", "intrinsic_HaveSameClass",
     "intrinsic_ToObject", "intrinsic_IsObject", "intrinsic_ToInteger", "intrinsic_ToString",
     "intrinsic_IsConstructing", "intrinsic_ObjectIsTypeDescr",
     "intrinsic_SetTypedObjectOffset", "testingFunc_inParallelSection",
     "testingFunc_bailout", "testingFunc_assertFloat32", "CallOrConstructBoundFunction",
     "js_parseInt"}
    \cup AtomicsBinopNatives \cup MathFunctionNatives \cup HasClassNatives

\* the call sites enumerated for a native
SitesOf(native) ==
    IF native = "atomics_compareExchange" THEN SitesAtomics(4)
    ELSE IF native = "atomics_load" THEN SitesAtomics(2)
    ELSE IF native = "atomics_store" \/ native \in AtomicsBinopNatives THEN SitesAtomics(3)
    ELSE IF native = "js_Array" THEN SitesArray
    ELSE IF native \in {"array_pop", "array_shift"} THEN SitesArrayPopShift
    ELSE IF native = "array_push" THEN SitesArrayPush
    ELSE IF native = "array_concat" THEN SitesArrayConcat
    ELSE IF native = "array_join" THEN SitesArrayJoin
    ELSE IF native = "array_splice" THEN SitesArraySplice
    ELSE IF native \in {"math_abs", "math_floor", "math_ceil", "math_clz32", "math_round",
                        "math_sqrt", "math_random"} \cup MathFunctionNatives
    THEN SitesMathUnary
    ELSE IF native \in {"math_atan2", "math_hypot", "math_imul"} THEN SitesMathBinary
    ELSE IF native \in {"math_max", "math_min"} THEN SitesMathMinMax
    ELSE IF native = "math_pow" THEN SitesMathPow
    ELSE IF native = "math_fround" THEN SitesMathFRound
    ELSE IF native = "js_String" THEN SitesStringObject
    ELSE IF native = "str_split" THEN SitesStringSplit
    ELSE IF native = "js_str_charCodeAt" THEN SitesStrCharCodeAt
    ELSE IF native = "str_fromCharCode"
    THEN SitesUniform({"Int32", "Double"}, {"String", "Value"})
    ELSE IF native = "js_str_charAt" THEN SitesStrCharAt
    ELSE IF native = "str_replace" THEN SitesStrReplace
    ELSE IF native \in {"regexp_exec", "regexp_test"} THEN SitesRegExp
    ELSE IF native = "intrinsic_UnsafePutElements" THEN SitesUnsafePutElements
    ELSE IF native = "intrinsic_NewDenseArray" THEN SitesNewDenseArray
    ELSE IF native = "intrinsic_UnsafeSetReservedSlot" THEN SitesUnsafeSetReservedSlot
    ELSE IF native = "intrinsic_UnsafeGetReservedSlot" THEN SitesUnsafeGetReservedSlot
    ELSE IF native = "intrinsic_ForkJoinGetSlice" THEN SitesForkJoinGetSlice
    ELSE IF native = "intrinsic_IsCallable" \/ native \in HasClassNatives THEN SitesClassTest
    ELSE IF native = "intrinsic_HaveSameClass" THEN SitesHaveSameClass
    ELSE IF native \in {"intrinsic_ToObject", "intrinsic_IsObject", "intrinsic_ToString"}
    THEN SitesConversion
    ELSE IF native = "intrinsic_ToInteger" THEN SitesToInteger
    ELSE IF native = "intrinsic_IsConstructing" THEN SitesIsConstructing
    ELSE IF native = "intrinsic_ObjectIsTypeDescr" THEN SitesObjectIsTypeDescr
    ELSE IF native = "intrinsic_SetTypedObjectOffset" THEN SitesSetTypedObjectOffset
    ELSE IF native = "testingFunc_assertFloat32" THEN SitesAssertFloat32
    ELSE IF native = "CallOrConstructBoundFunction" THEN SitesBoundFunction
    ELSE SitesFence

\* ============================================================ MediaDecoder
\* dom/media/MediaDecoder.cpp: the play-state machine of one decoder. Every
\* method is an operator from the decoder before the call to the decoder
\* after it; owner callbacks do not call back into the decoder.

\* Largest playback or seek time, in seconds.
MaxTime == 1
\* Largest number of output streams attached to the decoder.
MaxOutputStreams == 1

PlayState ==
    {"PLAY_STATE_START", "PLAY_STATE_LOADING", "PLAY_STATE_PAUSED", "PLAY_STATE_PLAYING",
     "PLAY_STATE_SEEKING", "PLAY_STATE_ENDED", "PLAY_STATE_SHUTDOWN"}

\* SeekTarget(time, type); mTime = -1 after Reset(), and IsValid() tests it
SeekTarget(t) == [mTime |-> t]

SeekTargetReset == [mTime |-> -1]

IsValid(target) == target.mTime # -1

\* MediaDecoder::MediaDecoder(): the member initializers, no owner, no state
\* machine, no resource, no decoded stream
MediaDecoder ==
    [mPlayState |-> "PLAY_STATE_PAUSED", mNextState |-> "PLAY_STATE_PAUSED",
     mIsDormant |-> FALSE, mIsExitingDormant |-> FALSE,
     mRequestedSeekTarget |-> SeekTargetReset, mCurrentTime |-> 0,
     mShuttingDown |-> FALSE, mPausedForPlaybackRateNull |-> FALSE,
     mOwner |-> FALSE, mDecoderStateMachine |-> FALSE, mResource |-> FALSE,
     mDecodedStream |-> FALSE, mHaveBlockedForPlayState |-> FALSE,
     \* ChangeExplicitBlockerCount deltas the decoder gave the decoded stream
     \* for the play state
     playStateBlockers |-> 0,
     \* mFinishWhenEnded of each output stream
     mOutputStreams |-> <<>>,
     registered |-> FALSE,
     \* calls made by the running method to the owner and to the state machine
     ownerCalls |-> <<>>, stateMachineCalls |-> <<>>,
     \* how often the state machine was shut down, the resource closed and
     \* the decoder unregistered from the shutdown manager
     stateMachineShutdowns |-> 0, resourceCloses |-> 0, unregistrations |-> 0]

\* a method is entered: the call records start empty
Enter(d) == [d EXCEPT !.ownerCalls = <<>>, !.stateMachineCalls = <<>>]

\* mOwner->name(...)
OwnerCall(d, name) == [d EXCEPT !.ownerCalls = Append(@, name)]

\* mDecoderStateMachine->name(...)
StateMachineCall(d, name, t) ==
    [d EXCEPT !.stateMachineCalls = Append(@, [call |-> name, mTime |-> t])]

DormantLoading(d) == d.mPlayState = "PLAY_STATE_LOADING" /\ d.mIsDormant

ApplyStateToStateMachine(d, aState) ==
    IF ~d.mDecoderStateMachine THEN d
    ELSE IF aState = "PLAY_STATE_PLAYING" THEN StateMachineCall(d, "Play", -1)
    ELSE IF aState = "PLAY_STATE_SEEKING"
    THEN [StateMachineCall(d, "Seek", d.mRequestedSeekTarget.mTime)
             EXCEPT !.mRequestedSeekTarget = SeekTargetReset]
    ELSE d

\* ChangeState without the test for PLAY_STATE_SHUTDOWN
ChangeStateAfterShutdown(d, aState) ==
    LET d1 == IF d.mNextState = aState THEN [d EXCEPT !.mNextState = "PLAY_STATE_PAUSED"] ELSE d
        blockForPlayState == aState # "PLAY_STATE_PLAYING"
    IN  IF DormantLoading(d1) /\ aState # "PLAY_STATE_SHUTDOWN"
        THEN d1
        ELSE LET d2 == IF d1.mDecodedStream /\ d1.mHaveBlockedForPlayState # blockForPlayState
                       THEN [d1 EXCEPT !.playStateBlockers =
                                           @ + (IF blockForPlayState THEN 1 ELSE -1),
                                       !.mHaveBlockedForPlayState = blockForPlayState]
                       ELSE d1
                 d3 == [d2 EXCEPT !.mPlayState = aState]
                 d4 == ApplyStateToStateMachine(d3, d3.mPlayState)
             IN  IF aState # "PLAY_STATE_LOADING"
                 THEN [d4 EXCEPT !.mIsDormant = FALSE, !.mIsExitingDormant = FALSE]
                 ELSE d4

ChangeState(d, aState) ==
    LET d1 == IF d.mNextState = aState THEN [d EXCEPT !.mNextState = "PLAY_STATE_PAUSED"] ELSE d
        blockForPlayState == aState # "PLAY_STATE_PLAYING"
    IN  IF (DormantLoading(d1) /\ aState # "PLAY_STATE_SHUTDOWN")
           \/ d1.mPlayState = "PLAY_STATE_SHUTDOWN"
        THEN d1
        ELSE LET d2 == IF d1.mDecodedStream /\ d1.mHaveBlockedForPlayState # blockForPlayState
                       THEN [d1 EXCEPT !.playStateBlockers =
                                           @ + (IF blockForPlayState THEN 1 ELSE -1),
                                       !.mHaveBlockedForPlayState = blockForPlayState]
                       ELSE d1
                 d3 == [d2 EXCEPT !.mPlayState = aState]
                 d4 == ApplyStateToStateMachine(d3, d3.mPlayState)
             IN  IF aState # "PLAY_STATE_LOADING"
                 THEN [d4 EXCEPT !.mIsDormant = FALSE, !.mIsExitingDormant = FALSE]
                 ELSE d4

\* the decoded stream goes, and with it its flags and blocker counts
DestroyDecodedStream(d) ==
    [d EXCEPT !.mDecodedStream = FALSE, !.mHaveBlockedForPlayState = FALSE,
              !.playStateBlockers = 0]

\* RecreateDecodedStream that never blocks the new stream
RecreateDecodedStreamUnblocked(d) ==
    [DestroyDecodedStream(d) EXCEPT !.mDecodedStream = TRUE]

RecreateDecodedStream(d) ==
    LET d1 == [DestroyDecodedStream(d) EXCEPT !.mDecodedStream = TRUE]
        block == d1.mPlayState # "PLAY_STATE_PLAYING"
    IN  [d1 EXCEPT !.mHaveBlockedForPlayState = block,
                   !.playStateBlockers = IF block THEN @ + 1 ELSE @]

\* ScheduleStateMachineThread() fails without a state machine (NS_ENSURE_STATE)
ScheduleStateMachineThreadFails(d) == ~d.mDecoderStateMachine

ScheduleStateMachineThread(d) ==
    IF ~d.mDecoderStateMachine THEN d
    ELSE IF d.mShuttingDown THEN d
    ELSE StateMachineCall(d, "ScheduleStateMachine", -1)

AddOutputStream(d, aFinishWhenEnded) ==
    LET d1 == IF ~d.mDecodedStream THEN RecreateDecodedStream(d) ELSE d
        d2 == [d1 EXCEPT !.mOutputStreams = Append(@, aFinishWhenEnded)]
    IN  IF d2.mDecoderStateMachine THEN ScheduleStateMachineThread(d2) ELSE d2

\* MediaDecoder::Init(aOwner)
MediaDecoderInit(d) == [d EXCEPT !.mOwner = TRUE, !.registered = TRUE]

\* Load(): the resource is opened, the state machine created and initialized
Load(d) ==
    LET d1 == [d EXCEPT !.mResource = TRUE, !.mDecoderStateMachine = TRUE]
        d2 == StateMachineCall(d1, "Init", -1)
    IN  ScheduleStateMachineThread(ChangeState(d2, "PLAY_STATE_LOADING"))

\* Seek that starts the seek in a dormant decoder too
SeekWhileDormant(d, aTime, paused) ==
    LET d1 == [d EXCEPT !.mRequestedSeekTarget = SeekTarget(aTime), !.mCurrentTime = aTime]
        d2 == IF d1.mPlayState # "PLAY_STATE_SEEKING"
              THEN ChangeState([d1 EXCEPT !.mNextState = IF d1.mOwner /\ paused
                                                           THEN "PLAY_STATE_PAUSED"
                                                           ELSE "PLAY_STATE_PLAYING",
                                           !.mIsDormant = FALSE],
                               "PLAY_STATE_SEEKING")
              ELSE d1
    IN  ScheduleStateMachineThread(d2)

\* Seek(aTime, aSeekType); paused is what mOwner->GetPaused() answers.
\* PinForSeek() and UnpinForSeek() pin the resource's data and touch no member
\* the play state depends on: they are left out.
Seek(d, aTime, paused) ==
    LET d1 == [d EXCEPT !.mRequestedSeekTarget = SeekTarget(aTime), !.mCurrentTime = aTime]
        d2 == IF ~DormantLoading(d1) /\ d1.mPlayState # "PLAY_STATE_SEEKING"
              THEN ChangeState([d1 EXCEPT !.mNextState = IF d1.mOwner /\ paused
                                                           THEN "PLAY_STATE_PAUSED"
                                                           ELSE "PLAY_STATE_PLAYING"],
                               "PLAY_STATE_SEEKING")
              ELSE d1
    IN  ScheduleStateMachineThread(d2)

Play(d, paused) ==
    IF d.mPausedForPlaybackRateNull THEN d
    ELSE
    LET d1 == ScheduleStateMachineThread(d)
    IN  IF ScheduleStateMachineThreadFails(d) THEN d1
        ELSE IF DormantLoading(d1) \/ d1.mPlayState = "PLAY_STATE_SEEKING"
        THEN [d1 EXCEPT !.mNextState = "PLAY_STATE_PLAYING"]
        ELSE IF d1.mPlayState = "PLAY_STATE_ENDED" THEN Seek(d1, 0, paused)
        ELSE ChangeState(d1, "PLAY_STATE_PLAYING")

\* Pause that changes the state in the middle of a seek
PauseDuringSeek(d) ==
    IF DormantLoading(d) \/ d.mPlayState = "PLAY_STATE_ENDED"
    THEN [d EXCEPT !.mNextState = "PLAY_STATE_PAUSED"]
    ELSE ChangeState(d, "PLAY_STATE_PAUSED")

Pause(d) ==
    IF DormantLoading(d) \/ d.mPlayState = "PLAY_STATE_SEEKING"
       \/ d.mPlayState = "PLAY_STATE_ENDED"
    THEN [d EXCEPT !.mNextState = "PLAY_STATE_PAUSED"]
    ELSE ChangeState(d, "PLAY_STATE_PAUSED")

\* SetPlaybackRate(aPlaybackRate): zero says whether the rate is 0.0
SetPlaybackRate(d, zero, paused) ==
    IF zero THEN Pause([d EXCEPT !.mPausedForPlaybackRateNull = TRUE])
    ELSE LET d1 == IF d.mPausedForPlaybackRateNull
                   THEN LET d0 == [d EXCEPT !.mPausedForPlaybackRateNull = FALSE]
                        IN  IF d0.mOwner /\ ~paused THEN Play(d0, paused) ELSE d0
                   ELSE d
         IN  IF d1.mDecoderStateMachine THEN StateMachineCall(d1, "SetPlaybackRate", -1)
             ELSE d1

\* SetDormantIfNecessary(aDormant); needed is what IsDormantNeeded() answers
SetDormantIfNecessary(d, aDormant, needed) ==
    IF ~d.mDecoderStateMachine \/ ~needed \/ d.mPlayState = "PLAY_STATE_SHUTDOWN"
       \/ d.mIsDormant = aDormant
    THEN d
    ELSE IF aDormant
    THEN LET d1 == StateMachineCall(DestroyDecodedStream(d), "SetDormant(true)", -1)
             d2 == [d1 EXCEPT !.mRequestedSeekTarget = SeekTarget(d1.mCurrentTime),
                              !.mNextState = d1.mPlayState,
                              !.mIsDormant = TRUE, !.mIsExitingDormant = FALSE]
         IN  ChangeState(d2, "PLAY_STATE_LOADING")
    ELSE IF d.mPlayState = "PLAY_STATE_LOADING"
    THEN [StateMachineCall(d, "SetDormant(false)", -1) EXCEPT !.mIsExitingDormant = TRUE]
    ELSE d

UpdateReadyStateForData(d) ==
    IF ~d.mOwner \/ d.mShuttingDown \/ ~d.mDecoderStateMachine THEN d
    ELSE OwnerCall(d, "UpdateReadyStateForData")

NotifySuspendedStatusChanged(d) ==
    IF d.mResource /\ d.mOwner
    THEN UpdateReadyStateForData(OwnerCall(d, "NotifySuspendedByCache"))
    ELSE d

MetadataLoaded(d) ==
    IF d.mShuttingDown THEN d
    ELSE IF DormantLoading(d) /\ ~d.mIsExitingDormant THEN d
    ELSE
    LET d1 == IF DormantLoading(d) /\ d.mIsExitingDormant
              THEN [d EXCEPT !.mIsDormant = FALSE, !.mIsExitingDormant = FALSE]
              ELSE d
        d2 == IF d1.mOwner
              THEN OwnerCall(OwnerCall(d1, "MetadataLoaded"), "FirstFrameLoaded")
              ELSE d1
        d3 == IF d2.mPlayState = "PLAY_STATE_LOADING"
              THEN IF IsValid(d2.mRequestedSeekTarget)
                   THEN ChangeState(d2, "PLAY_STATE_SEEKING")
                   ELSE ChangeState(d2, d2.mNextState)
              ELSE d2
    IN  NotifySuspendedStatusChanged(d3)

\* PlaybackPositionChanged(); t is the state machine's current time
PlaybackPositionChanged(d, t) ==
    IF d.mShuttingDown THEN d
    ELSE
    LET lastTime == d.mCurrentTime
        d1 == IF d.mDecoderStateMachine
              THEN StateMachineCall(
                       IF d.mPlayState # "PLAY_STATE_SEEKING" /\ d.mPlayState # "PLAY_STATE_PAUSED"
                       THEN [d EXCEPT !.mCurrentTime = t]
                       ELSE d,
                       "ClearPositionChangeFlag", -1)
              ELSE d
    IN  IF d1.mOwner /\ lastTime # d1.mCurrentTime
        THEN OwnerCall(d1, "FireTimeUpdate")
        ELSE d1

\* the output streams that finish with the decoded stream are removed
RECURSIVE FinishOutputStreams(_)
FinishOutputStreams(os) ==
    IF os = <<>> THEN <<>>
    ELSE IF os[1] THEN FinishOutputStreams(SubSeq(os, 2, Len(os)))
    ELSE <<os[1]>> \o FinishOutputStreams(SubSeq(os, 2, Len(os)))

PlaybackEnded(d, t) ==
    IF d.mShuttingDown \/ d.mPlayState = "PLAY_STATE_SEEKING" \/ DormantLoading(d) THEN d
    ELSE
    LET d1 == [d EXCEPT !.mOutputStreams = FinishOutputStreams(@)]
        d2 == ChangeState(PlaybackPositionChanged(d1, t), "PLAY_STATE_ENDED")
        d3 == UpdateReadyStateForData(d2)
    IN  IF d3.mOwner THEN OwnerCall(d3, "PlaybackEnded") ELSE d3

\* SeekingStopped that reports every seek as completed
SeekingStoppedAlwaysCompleted(d, t) ==
    IF d.mShuttingDown THEN d
    ELSE
    LET d1 == IF IsValid(d.mRequestedSeekTarget)
              THEN ChangeState(d, "PLAY_STATE_SEEKING")
              ELSE ChangeState(d, d.mNextState)
        d2 == PlaybackPositionChanged(d1, t)
    IN  IF d2.mOwner THEN OwnerCall(UpdateReadyStateForData(d2), "SeekCompleted") ELSE d2

SeekingStopped(d, t) ==
    IF d.mShuttingDown THEN d
    ELSE
    LET seekWasAborted == IsValid(d.mRequestedSeekTarget)
        d1 == IF seekWasAborted
              THEN ChangeState(d, "PLAY_STATE_SEEKING")
              ELSE ChangeState(d, d.mNextState)
        d2 == PlaybackPositionChanged(d1, t)
    IN  IF d2.mOwner
        THEN LET d3 == UpdateReadyStateForData(d2)
             IN  IF ~seekWasAborted THEN OwnerCall(d3, "SeekCompleted") ELSE d3
        ELSE d2

SeekingStoppedAtEnd(d, t) ==
    IF d.mShuttingDown THEN d
    ELSE
    LET seekWasAborted == IsValid(d.mRequestedSeekTarget)
        fireEnded == ~seekWasAborted
        d1 == IF seekWasAborted
              THEN ChangeState(d, "PLAY_STATE_SEEKING")
              ELSE ChangeState(d, "PLAY_STATE_ENDED")
        d2 == PlaybackPositionChanged(d1, t)
    IN  IF d2.mOwner
        THEN LET d3 == UpdateReadyStateForData(d2)
                 d4 == IF ~seekWasAborted THEN OwnerCall(d3, "SeekCompleted") ELSE d3
             IN  IF ~seekWasAborted /\ fireEnded THEN OwnerCall(d4, "PlaybackEnded") ELSE d4
        ELSE d2

SeekingStarted(d) ==
    IF d.mShuttingDown THEN d
    ELSE IF d.mOwner THEN OwnerCall(UpdateReadyStateForData(d), "SeekStarted")
    ELSE d

\* Shutdown without the test of mShuttingDown
ShutdownUnguarded(d) ==
    LET d1 == DestroyDecodedStream([d EXCEPT !.mShuttingDown = TRUE])
        d2 == IF d1.mDecoderStateMachine
              THEN [StateMachineCall(d1, "Shutdown", -1) EXCEPT !.stateMachineShutdowns = @ + 1]
              ELSE d1
        d3 == IF d2.mResource THEN [d2 EXCEPT !.resourceCloses = @ + 1] ELSE d2
        d4 == ChangeState(d3, "PLAY_STATE_SHUTDOWN")
    IN  [d4 EXCEPT !.mOwner = FALSE, !.registered = FALSE, !.unregistrations = @ + 1]

Shutdown(d) ==
    IF d.mShuttingDown THEN d
    ELSE
    LET d1 == DestroyDecodedStream([d EXCEPT !.mShuttingDown = TRUE])
        d2 == IF d1.mDecoderStateMachine
              THEN [StateMachineCall(d1, "Shutdown", -1) EXCEPT !.stateMachineShutdowns = @ + 1]
              ELSE d1
        d3 == IF d2.mResource THEN [d2 EXCEPT !.resourceCloses = @ + 1] ELSE d2
        d4 == ChangeState(d3, "PLAY_STATE_SHUTDOWN")
    IN  [d4 EXCEPT !.mOwner = FALSE, !.registered = FALSE, !.unregistrations = @ + 1]

NetworkError(d) ==
    IF d.mShuttingDown THEN d
    ELSE Shutdown(IF d.mOwner THEN OwnerCall(d, "NetworkError") ELSE d)

DecodeError(d) ==
    IF d.mShuttingDown THEN d
    ELSE Shutdown(IF d.mOwner THEN OwnerCall(d, "DecodeError") ELSE d)

ResetConnectionState(d) ==
    IF d.mShuttingDown THEN d
    ELSE Shutdown(IF d.mOwner THEN OwnerCall(d, "ResetConnectionState") ELSE d)

\* no MediaDecoder method has run
NoCall == [op |-> "none", aTime |-> -1, aState |-> "none"]

\* ------------------------------------------------------------ state machine

ExecutionModes == {"SequentialExecution", "ParallelExecution"}

EntryValue(i) == [k |-> "entry", i |-> i]

\* The builder stands at a call site: nothing of the call is emitted yet.
Init ==
    /\ inlineNative \in BOOLEAN
    /\ executionMode \in ExecutionModes
    /\ entryDepth \in 0..MaxEntryDepth
    /\ stack = [i \in 1..entryDepth |-> EntryValue(i)]
    /\ nodes = <<>>
    /\ entryNodes = 0
    /\ marks = NoMarks
    /\ log = <<>>
    /\ status = "None"
    /\ why = "none"
    /\ callee = "none"
    /\ callInfo = CallInfo(FALSE, Receiver, <<>>)
    /\ env = DefaultEnv
    /\ persisted = {}
    /\ reentryNodes = -1
    /\ decoder = MediaDecoder
    /\ lastCall = NoCall

\* the builder state a run leaves behind, and the status it returned
Finish(r, target, site) ==
    /\ nodes' = r.nodes
    /\ stack' = r.stack
    /\ marks' = r.marks
    /\ log' = r.log
    /\ status' = r.status
    /\ why' = r.why
    /\ persisted' = r.persisted
    /\ callee' = target
    /\ callInfo' = site.ci
    /\ env' = site.env
    /\ UNCHANGED <<inlineNative, executionMode, entryNodes, entryDepth, reentryNodes>>
    /\ UNCHANGED <<decoder, lastCall>>

\* inlineNativeCall(callInfo, target)
NativeCall ==
    /\ status = "None"
    /\ \E native \in Natives : \E site \in SitesOf(native) :
        Finish(inlineNativeCall(Builder(nodes, stack, inlineNative, executionMode, site.env),
                                site.ci, native),
               native, site)

\* inlineNativeGetter(callInfo, target)
NativeGetter ==
    /\ status = "None"
    /\ \E site \in SitesGetter :
        Finish(inlineNativeGetter(Builder(nodes, stack, inlineNative, executionMode, site.env),
                                  site.ci),
               "getter", site)

\* inlineNonFunctionCall(callInfo, target)
NonFunctionCall ==
    /\ status = "None"
    /\ \E site \in SitesNonFunction :
        Finish(inlineNonFunctionCall(Builder(nodes, stack, inlineNative, executionMode,
                                             site.env), site.ci),
               "hook", site)

Next == NativeCall \/ NativeGetter \/ NonFunctionCall

Spec == Init /\ [][Next]_vars

\* inlineNativeCall(callInfo, target) invoked once more on a call site it has
\* answered Inlined: the same call info and target, on the block as the first
\* run left it. inlineNativeCall reads nothing that records an earlier run.
FinishAgain(r) ==
    /\ nodes' = r.nodes
    /\ stack' = r.stack
    /\ marks' = r.marks
    /\ log' = r.log
    /\ status' = r.status
    /\ why' = r.why
    /\ persisted' = r.persisted
    /\ reentryNodes' = Len(nodes)
    /\ UNCHANGED <<inlineNative, executionMode, callee, callInfo, env, entryNodes, entryDepth>>
    /\ UNCHANGED <<decoder, lastCall>>

NativeCallAgain ==
    /\ status = "Inlined"
    /\ callee \in Natives
    /\ reentryNodes = -1
    /\ FinishAgain(inlineNativeCall([Builder(nodes, stack, inlineNative, executionMode, env)
                                       EXCEPT !.marks = marks, !.log = log,
                                              !.persisted = persisted],
                                    callInfo, callee))

NextReentry == Next \/ NativeCallAgain

SpecReentry == Init /\ [][NextReentry]_vars

\* ------------------------------------------------ MediaDecoder state machine

\* the builder is not at work while the decoder runs
BuilderIdle ==
    /\ inlineNative = FALSE
    /\ executionMode = "SequentialExecution"
    /\ entryDepth = 0
    /\ stack = <<>>
    /\ nodes = <<>>
    /\ entryNodes = 0
    /\ marks = NoMarks
    /\ log = <<>>
    /\ status = "None"
    /\ why = "none"
    /\ callee = "none"
    /\ callInfo = CallInfo(FALSE, Receiver, <<>>)
    /\ env = DefaultEnv
    /\ persisted = {}
    /\ reentryNodes = -1

\* new MediaDecoder()
InitMedia ==
    /\ BuilderIdle
    /\ decoder = MediaDecoder
    /\ lastCall = NoCall

Times == 0..MaxTime

\* method op ran on the decoder and left it as d
Ran(d, op, aTime, aState) ==
    /\ decoder' = d
    /\ lastCall' = [op |-> op, aTime |-> aTime, aState |-> aState]
    /\ UNCHANGED <<inlineNative, executionMode, nodes, stack, marks, log, status, why,
                   callee, callInfo, env, entryNodes, entryDepth, persisted, reentryNodes>>

CallInit ==
    /\ ~decoder.mOwner /\ ~decoder.mShuttingDown
    /\ Ran(MediaDecoderInit(Enter(decoder)), "Init", -1, "none")

CallLoad ==
    /\ decoder.mOwner /\ ~decoder.mDecoderStateMachine
    /\ Ran(Load(Enter(decoder)), "Load", -1, "none")

\* Play() asserts that the state machine exists
CallPlay ==
    /\ decoder.mDecoderStateMachine
    /\ \E paused \in BOOLEAN : Ran(Play(Enter(decoder), paused), "Play", -1, "none")

CallPause == Ran(Pause(Enter(decoder)), "Pause", -1, "none")

CallSeek ==
    \E aTime \in Times, paused \in BOOLEAN :
        Ran(Seek(Enter(decoder), aTime, paused), "Seek", aTime, "none")

CallSetPlaybackRate ==
    \E zero \in BOOLEAN, paused \in BOOLEAN :
        Ran(SetPlaybackRate(Enter(decoder), zero, paused), "SetPlaybackRate", -1, "none")

CallSetDormantIfNecessary ==
    \E aDormant \in BOOLEAN, needed \in BOOLEAN :
        Ran(SetDormantIfNecessary(Enter(decoder), aDormant, needed),
            "SetDormantIfNecessary", -1, "none")

CallChangeState ==
    \E aState \in PlayState :
        Ran(ChangeState(Enter(decoder), aState), "ChangeState", -1, aState)

CallAddOutputStream ==
    /\ Len(decoder.mOutputStreams) < MaxOutputStreams
    /\ \E aFinishWhenEnded \in BOOLEAN :
           Ran(AddOutputStream(Enter(decoder), aFinishWhenEnded), "AddOutputStream", -1, "none")

\* the state machine recreates the decoded stream of a captured decoder
CallRecreateDecodedStream ==
    /\ decoder.mDecoderStateMachine /\ decoder.mDecodedStream
    /\ Ran(RecreateDecodedStream(Enter(decoder)), "RecreateDecodedStream", -1, "none")

\* the notifications the state machine and the resource send to the main thread
CallMetadataLoaded ==
    /\ decoder.mDecoderStateMachine
    /\ Ran(MetadataLoaded(Enter(decoder)), "MetadataLoaded", -1, "none")

CallPlaybackPositionChanged ==
    /\ decoder.mDecoderStateMachine
    /\ \E t \in Times :
           Ran(PlaybackPositionChanged(Enter(decoder), t), "PlaybackPositionChanged", -1, "none")

CallPlaybackEnded ==
    /\ decoder.mDecoderStateMachine
    /\ \E t \in Times : Ran(PlaybackEnded(Enter(decoder), t), "PlaybackEnded", -1, "none")

CallSeekingStarted ==
    /\ decoder.mDecoderStateMachine
    /\ Ran(SeekingStarted(Enter(decoder)), "SeekingStarted", -1, "none")

CallSeekingStopped ==
    /\ decoder.mDecoderStateMachine
    /\ \E t \in Times : Ran(SeekingStopped(Enter(decoder), t), "SeekingStopped", -1, "none")

CallSeekingStoppedAtEnd ==
    /\ decoder.mDecoderStateMachine
    /\ \E t \in Times :
           Ran(SeekingStoppedAtEnd(Enter(decoder), t), "SeekingStoppedAtEnd", -1, "none")

CallShutdown == Ran(Shutdown(Enter(decoder)), "Shutdown", -1, "none")

CallNetworkError ==
    /\ decoder.mResource
    /\ Ran(NetworkError(Enter(decoder)), "NetworkError", -1, "none")

CallDecodeError ==
    /\ decoder.mDecoderStateMachine
    /\ Ran(DecodeError(Enter(decoder)), "DecodeError", -1, "none")

CallResetConnectionState ==
    /\ decoder.mResource
    /\ Ran(ResetConnectionState(Enter(decoder)), "ResetConnectionState", -1, "none")

NextMedia ==
    \/ CallInit \/ CallLoad \/ CallPlay \/ CallPause \/ CallSeek \/ CallSetPlaybackRate
    \/ CallSetDormantIfNecessary \/ CallChangeState \/ CallAddOutputStream
    \/ CallRecreateDecodedStream \/ CallMetadataLoaded \/ CallPlaybackPositionChanged
    \/ CallPlaybackEnded \/ CallSeekingStarted \/ CallSeekingStopped
    \/ CallSeekingStoppedAtEnd \/ CallShutdown \/ CallNetworkError \/ CallDecodeError
    \/ CallResetConnectionState

SpecMedia == InitMedia /\ [][NextMedia]_vars


\* ------------------------------------------------------------- properties

\* the instructions the run added to the block
NewNodes == SubSeq(nodes, entryNodes + 1, Len(nodes))

\* the run added an instruction or pushed a value
Emitted == \E i \in 1..Len(log) : log[i] \in {"add", "push"}

\* the block is as it was at entry
GraphUnchanged ==
    /\ Len(nodes) = entryNodes
    /\ stack = [i \in 1..entryDepth |-> EntryValue(i)]
    /\ ~Emitted

\* the run went through inlineNativeCall into a specializer
ThroughNativeCall == callee \in Natives /\ why # "disabled"

\* C1: a call site rejected by a specializer's arity, constructing, operand
\* type or return type check gets NotInlined and leaves block and stack as
\* they were.
C1_RejectionIsNotInlined ==
    (ThroughNativeCall /\ why \in {"arity", "constructing", "type", "returnType"})
        => (status = "NotInlined" /\ GraphUnchanged)

\* C2: after Inlined, every effectful instruction the run added carries
\* exactly one resume point.
C2_EffectfulHaveOneResumePoint ==
    status = "Inlined"
        => \A i \in (entryNodes + 1)..Len(nodes) : Effectful(nodes[i].op) => nodes[i].rp = 1

\* the operands Math.min / Math.max works on: the Int32 operands when the
\* result stays Int32, all arguments otherwise
MinMaxDomain ==
    LET s == inlineMathMinMaxScan(
                 Builder(<<>>, <<>>, TRUE, executionMode, [env EXCEPT !.failAt = 0]),
                 callInfo, callee = "math_max", 0, <<>>, env.returnType)
    IN  IF Len(s.int32_cases) # 0 /\ s.returnType = "Int32" THEN s.int32_cases
        ELSE [i \in 1..callInfo.argc |-> ArgRef(i - 1)]

\* C3: Math.min / Math.max over N operands emits one MLimitedTruncate when
\* N = 1, and for N >= 2 exactly N - 1 MMinMax nodes chained to the left, the
\* k-th combining the previous node with operand k + 1.
C3_MinMaxLeftChain ==
    (callee \in {"math_min", "math_max"} /\ status = "Inlined")
        => LET dom == MinMaxDomain
               N == Len(dom)
           IN  IF N = 1
               THEN /\ Len(NewNodes) = 1
                    /\ NewNodes[1].op = "MLimitedTruncate"
                    /\ NewNodes[1].ins = <<dom[1]>>
               ELSE /\ Len(NewNodes) = N - 1
                    /\ \A k \in 1..(N - 1) :
                        /\ NewNodes[k].op = "MMinMax"
                        /\ NewNodes[k].ins =
                               <<IF k = 1 THEN dom[1] ELSE NodeRef(entryNodes + k - 1),
                                 dom[k + 1]>>

\* C4: Error is returned only after the commit: the call has been marked
\* dead or emission has begun.
C4_ErrorOnlyAfterCommit ==
    (ThroughNativeCall /\ status = "Error") => (marks # NoMarks \/ Emitted)

\* C5: no run marks the call dead and then returns NotInlined.
C5_NoMarkThenNotInlined ==
    status = "NotInlined" => marks = NoMarks

\* C6: every run that returns Inlined has marked callee, this and arguments
\* of the original call as implicitly used.
C6_InlinedMarksCallDead ==
    status = "Inlined" => (marks.fun >= 1 /\ marks.this >= 1 /\ marks.args >= 1)

\* C7: once a run has added an instruction or pushed a value it does not
\* return NotInlined.
C7_NoEmitThenAbort ==
    Emitted => status \in {"Inlined", "Error"}

\* C7 happens: a run that had begun to emit hit a failure and ended in Error.
C7_Witness ==
    /\ callee = "array_push"
    /\ Emitted
    /\ Len(nodes) > entryNodes
    /\ status = "Error"

\* C8: with the inlineNative switch off, every entry point returns
\* NotInlined and leaves the graph unchanged.
C8_SwitchOffDisablesAll ==
    (~inlineNative /\ status # "None") => (status = "NotInlined" /\ GraphUnchanged)

\* C9: a run that returns Inlined leaves the value stack exactly one entry
\* deeper than at entry, the entries below untouched.
C9_InlinedPushesOne ==
    status = "Inlined"
        => /\ Len(stack) = entryDepth + 1
           /\ SubSeq(stack, 1, entryDepth) = [i \in 1..entryDepth |-> EntryValue(i)]

\* C9 happens: UnsafePutElements inlined two stores and pushed one placeholder.
C9_Witness ==
    /\ callee = "intrinsic_UnsafePutElements"
    /\ status = "Inlined"
    /\ callInfo.argc = 6
    /\ Len(nodes) = entryNodes + 3
    /\ Len(stack) = entryDepth + 1
    /\ entryDepth = MaxEntryDepth

ArrayNatives ==
    {"array_push", "array_pop", "array_shift", "array_concat", "array_splice", "array_join"}

\* the receiver's type-set says: class Array, and none of flags
IsPlainArray(d, flags) ==
    d.hasTypes /\ d.knownClass = "Array" /\ d.flags \cap flags = {}

\* C10 as stated: each of the six array natives is inlined only for a
\* receiver of known class Array that is not sparse, length-overflowed or
\* iterated.
C10_ArrayReceiverGuards ==
    (callee \in ArrayNatives /\ status = "Inlined")
        => IsPlainArray(callInfo.thisArg, {"SPARSE_INDEXES", "LENGTH_OVERFLOW", "ITERATED"})

\* C10 as the code has it: pop and shift need class Array and none of the
\* three flags; push and concat need class Array and neither sparse indexes
\* nor length overflow (concat of its argument too); splice and join need a
\* receiver of MIR type Object only.
C10_ArrayReceiverGuardsPerNative ==
    (callee \in ArrayNatives /\ status = "Inlined")
        => /\ callInfo.thisArg.type = "Object"
           /\ callee \in {"array_pop", "array_shift"}
                => IsPlainArray(callInfo.thisArg,
                                {"SPARSE_INDEXES", "LENGTH_OVERFLOW", "ITERATED"})
           /\ callee \in {"array_push", "array_concat"}
                => IsPlainArray(callInfo.thisArg, {"SPARSE_INDEXES", "LENGTH_OVERFLOW"})
           /\ callee = "array_concat"
                => IsPlainArray(getArg(callInfo, 0), {"SPARSE_INDEXES", "LENGTH_OVERFLOW"})

\* C10 happens: push is inlined for an array of known class Array that has
\* been iterated.
C10_Witness ==
    /\ callee = "array_push"
    /\ status = "Inlined"
    /\ IsPlainArray(callInfo.thisArg, {"SPARSE_INDEXES", "LENGTH_OVERFLOW"})
    /\ "ITERATED" \in callInfo.thisArg.flags

\* C11: concat is inlined only if every object type of the argument has
\* known properties and element types within the receiver type's element
\* types, and the template object has the receiver's single type; an
\* argument type with an element type the receiver lacks gives NotInlined
\* with the graph unchanged.
C11_ConcatElementSubset ==
    LET this == callInfo.thisArg
        arg == getArg(callInfo, 0)
    IN  (callee = "array_concat" /\ callInfo.argc = 1 /\ status # "None")
            => /\ status = "Inlined"
                    => /\ Len(this.objects) = 1
                       /\ ~this.objects[1].isNull
                       /\ env.template = "match"
                       /\ \A i \in 1..Len(arg.objects) :
                            ~arg.objects[i].isNull
                                => /\ ~arg.objects[i].unknownProperties
                                   /\ arg.objects[i].elemTypes
                                          \subseteq this.objects[1].elemTypes
               /\ (/\ Len(this.objects) = 1
                   /\ \E i \in 1..Len(arg.objects) :
                        /\ ~arg.objects[i].isNull
                        /\ ~(arg.objects[i].elemTypes \subseteq this.objects[1].elemTypes))
                    => (status = "NotInlined" /\ GraphUnchanged)

\* C11 happens: a receiver with elements {Int32, String} is concatenated
\* with an argument with elements {Int32}.
C11_Witness ==
    /\ callee = "array_concat"
    /\ status = "Inlined"
    /\ callInfo.thisArg.objects[1].elemTypes = {"Int32", "String"}
    /\ Len(getArg(callInfo, 0).objects) = 1
    /\ getArg(callInfo, 0).objects[1].elemTypes = {"Int32"}

\* the value of a numeric constant operand is at least / at most the integer n
ConstAtLeast(arg, n) == arg.num >= n

ConstAtMost(arg, n) == arg.num < n \/ (arg.num = n /\ ~arg.half)

\* a floating constant that cannot change an Int32 minimum / maximum
MinMaxDominated(arg, max) ==
    /\ arg.isConstant
    /\ IF max THEN ConstAtMost(arg, INT32_MIN) ELSE ConstAtLeast(arg, INT32_MAX)

\* the domain rule of Math.min / Math.max, read off the emitted chain: its
\* length, the type of its MMinMax nodes and the call operands it reads
MinMaxDomainRule ==
    (/\ callee \in {"math_min", "math_max"}
     /\ status # "None" /\ inlineNative
     /\ callInfo.argc >= 1 /\ ~callInfo.constructing
     /\ IsNumberType(env.returnType))
        => LET max == callee = "math_max"
               idx == [i \in 1..callInfo.argc |-> i - 1]
               IsInt(i) == getArg(callInfo, i).type = "Int32"
               IsFloat(i) == IsFloatingPointType(getArg(callInfo, i).type)
               ints == SelectSeq(idx, IsInt)
               forcing == {i \in 0..(callInfo.argc - 1) :
                              IsFloat(i) /\ ~MinMaxDominated(getArg(callInfo, i), max)}
               int32Domain == env.returnType = "Int32" /\ Len(ints) > 0 /\ forcing = {}
               dom == IF int32Domain THEN [k \in 1..Len(ints) |-> ArgRef(ints[k])]
                      ELSE [k \in 1..callInfo.argc |-> ArgRef(k - 1)]
               type == IF int32Domain THEN "Int32"
                       ELSE IF forcing # {} \/ Len(ints) = 0 THEN "Double"
                       ELSE env.returnType
           IN  IF \E i \in 0..(callInfo.argc - 1) : ~IsInt(i) /\ ~IsFloat(i)
               THEN /\ status # "Inlined"
                    /\ GraphUnchanged
                    /\ env.failAt = 0 => status = "NotInlined"
               ELSE status = "Inlined"
                       => /\ Len(NewNodes) = (IF Len(dom) = 1 THEN 1 ELSE Len(dom) - 1)
                          /\ NewNodes[1].ins[1] = dom[1]
                          /\ Len(dom) >= 2 => /\ Len(NewNodes[1].ins) = 2
                                              /\ NewNodes[1].ins[2] = dom[2]
                          /\ \A k \in 1..Len(NewNodes) :
                               /\ NewNodes[k].op = "MMinMax" => NewNodes[k].type = type
                               /\ \A j \in 1..Len(NewNodes[k].ins) :
                                    NewNodes[k].ins[j].k = "arg"
                                        => \E d \in 1..Len(dom) : dom[d] = NewNodes[k].ins[j]

\* a call Math.min(int32, c) with c the Double constant n and an Int32 result
MinOfInt32AndConstant(n) ==
    /\ callee = "math_min" /\ status = "Inlined"
    /\ callInfo.argc = 2
    /\ getArg(callInfo, 0).type = "Int32"
    /\ getArg(callInfo, 1) = NumConst("Double", n, FALSE)
    /\ env.returnType = "Int32"

\* the constant was dropped: the remaining Int32 operand is passed through
ConstantDropped ==
    /\ Len(NewNodes) = 1
    /\ NewNodes[1].op = "MLimitedTruncate"
    /\ NewNodes[1].ins = <<ArgRef(0)>>

PowArithmetic ==
    LET IsArith(n) == n.op \notin {"MToInt32", "MToDouble"}
        arith == SelectSeq(NewNodes, IsArith)
    IN  [k \in 1..Len(arith) |-> <<arith[k].op, arith[k].ins>>]

\* C13: Math.pow with a constant exponent 2 emits one multiply base*base; 3
\* two chained multiplies; 4 two multiplies y = base*base, y*y; 0.5 one
\* MPowHalf; -0.5 MPowHalf and a division of the constant 1 by it; 1 forwards
\* the base without an arithmetic node. None of the six emits MPow, and every
\* other exponent emits exactly one MPow.
C13_PowConstantExponents ==
    (callee = "math_pow" /\ status = "Inlined")
        => LET base == ArgRef(0)
               p == getArg(callInfo, 1)
               n1 == NodeRef(entryNodes + 1)
               n2 == NodeRef(entryNodes + 2)
               is(n, h) == p.isConstant /\ p.num = n /\ p.half = h
           IN  PowArithmetic =
                   IF is(2, FALSE) THEN << <<"MMul", <<base, base>> >> >>
                   ELSE IF is(3, FALSE)
                   THEN << <<"MMul", <<base, base>> >>, <<"MMul", <<base, n1>> >> >>
                   ELSE IF is(4, FALSE)
                   THEN << <<"MMul", <<base, base>> >>, <<"MMul", <<n1, n1>> >> >>
                   ELSE IF is(0, TRUE) THEN << <<"MPowHalf", <<base>> >> >>
                   ELSE IF is(-1, TRUE)
                   THEN << <<"MPowHalf", <<base>> >>, <<"MConstant", <<>> >>,
                           <<"MDiv", <<n2, n1>> >> >>
                   ELSE IF is(1, FALSE) THEN <<>>
                   ELSE << <<"MPow", <<base, ArgRef(1)>> >> >>

C13_Witness ==
    /\ callee = "math_pow" /\ status = "Inlined"
    /\ getArg(callInfo, 1) = NumConst("Double", 4, FALSE)
    /\ Len(PowArithmetic) = 2
    /\ nodes[Len(nodes)].ins = <<NodeRef(entryNodes + 1), NodeRef(entryNodes + 1)>>

\* a charCodeAt call the specializer accepts, on a constant linear string
\* with a constant Int32 index
ConstantCharCodeAtCall ==
    /\ callee = "js_str_charCodeAt" /\ status # "None" /\ inlineNative
    /\ callInfo.argc = 1 /\ ~callInfo.constructing
    /\ env.returnType = "Int32"
    /\ callInfo.thisArg.type = "String"
    /\ callInfo.thisArg.isConstant /\ callInfo.thisArg.isLinear
    /\ getArg(callInfo, 0).isConstant /\ getArg(callInfo, 0).type = "Int32"

\* C14: charCodeAt on a constant linear string with a constant Int32 index i,
\* 0 <= i < length, pushes the constant code unit at i ("AB", 1 gives 66) and
\* emits nothing else; with i negative or >= length nothing is folded and the
\* bounds-checked sequence is emitted.
C14_CharCodeAtFolding ==
    ConstantCharCodeAtCall
        => LET str == callInfo.thisArg.str
               i == getArg(callInfo, 0).num
           IN  /\ status = "Inlined"
               /\ IF 0 <= i /\ i < Len(str)
                  THEN /\ Len(NewNodes) = 1
                       /\ NewNodes[1].op = "MConstant"
                       /\ NewNodes[1].ins = <<ConstVal(str[i + 1])>>
                       /\ (str = <<65, 66>> /\ i = 1) => NewNodes[1].ins = <<ConstVal(66)>>
                       /\ stack[Len(stack)] = NodeRef(entryNodes + 1)
                  ELSE /\ [k \in 1..Len(NewNodes) |-> NewNodes[k].op]
                            = <<"MToInt32", "MStringLength", "MBoundsCheck", "MCharCodeAt">>
                       /\ stack[Len(stack)] = NodeRef(entryNodes + 4)

C14_Witness ==
    /\ ConstantCharCodeAtCall
    /\ callInfo.thisArg.str = <<65, 66>>
    /\ getArg(callInfo, 0).num = 1
    /\ Len(NewNodes) = 1
    /\ NewNodes[1].ins = <<ConstVal(66)>>

C14_WitnessOutOfRange ==
    /\ ConstantCharCodeAtCall
    /\ getArg(callInfo, 0).num = 2
    /\ Len(NewNodes) = 4

\* the group of UnsafePutElements arguments starting at base can be written
\* as a dense-array store without type barrier, a typed-array store or a
\* typed-object scalar-array store
PutGroupValidatable(base) ==
    LET obj == getArg(callInfo, base)
        id == getArg(callInfo, base + 1)
        elem == getArg(callInfo, base + 2)
    IN  /\ obj.type = "Object"
        /\ id.type \in {"Int32", "Double"}
        /\ \/ obj.access = "dense" /\ ~elem.writeBarrier
           \/ obj.access = "typedArray"
           \/ obj.access = "typedObject"

\* C15: UnsafePutElements with no arguments, an argument count that is not a
\* multiple of 3, or any group that cannot be validated returns NotInlined
\* without having added an instruction or pushed a value, also for the valid
\* groups before the invalid one.
C15_PutElementsValidateFirst ==
    (/\ callee = "intrinsic_UnsafePutElements" /\ status # "None"
     /\ \/ callInfo.argc = 0
        \/ callInfo.argc % 3 # 0
        \/ \E g \in 0..((callInfo.argc \div 3) - 1) : ~PutGroupValidatable(3 * g))
        => /\ status = "NotInlined"
           /\ GraphUnchanged
           /\ ~Emitted

\* a valid first group followed by an invalid one, rejected with the switch on
C15_Witness ==
    /\ callee = "intrinsic_UnsafePutElements" /\ inlineNative
    /\ callInfo.argc = 6 /\ ~callInfo.constructing
    /\ PutGroupValidatable(0) /\ ~PutGroupValidatable(3)
    /\ status = "NotInlined"
    /\ why = "shape"

\* the atomics specializers that read or write an element
AtomicsElementNatives ==
    {"atomics_compareExchange", "atomics_load", "atomics_store"} \cup AtomicsBinopNatives

\* the allow-list of element type and expected return type
AtomicsAllowed ==
    LET arr == getArg(callInfo, 0)
    IN  /\ arr.type = "Object" /\ arr.hasTypes
        /\ getArg(callInfo, 1).type = "Int32"
        /\ \/ /\ arr.sharedType \in {"Int8", "Uint8", "Int16", "Uint16", "Int32"}
              /\ env.returnType = "Int32"
           \/ /\ arr.sharedType = "Uint32"
              /\ env.returnType = "Double"

\* C16: atomic load, store, compare-exchange and fetch-binop are inlined only
\* for an object with one shared typed-array element type and an Int32 index,
\* the element type being Int8, Uint8, Int16, Uint16 or Int32 with an Int32
\* result or Uint32 with a Double result; any other element type or pairing
\* (Int8 with a Double result) gives NotInlined.
C16_AtomicsAllowList ==
    (callee \in AtomicsElementNatives /\ status # "None" /\ callInfo.argc >= 2)
        => /\ ~AtomicsAllowed => (status = "NotInlined" /\ GraphUnchanged)
           /\ status = "Inlined" => AtomicsAllowed

C16_Witness ==
    /\ callee = "atomics_compareExchange" /\ status = "Inlined"
    /\ getArg(callInfo, 0).sharedType = "Uint32"
    /\ env.returnType = "Double"

\* compare-exchange on an Int8 array with a Double result, otherwise acceptable
C16_WitnessInt8Double ==
    /\ callee = "atomics_compareExchange" /\ inlineNative
    /\ callInfo.argc = 4 /\ ~callInfo.constructing
    /\ getArg(callInfo, 0).type = "Object" /\ getArg(callInfo, 0).hasTypes
    /\ getArg(callInfo, 0).sharedType = "Int8"
    /\ getArg(callInfo, 1).type = "Int32"
    /\ env.returnType = "Double"
    /\ status = "NotInlined" /\ why = "returnType"

\* C17: a bound function whose target is not a plain function, that is
\* constructed while its target is no constructor, or whose target, an object
\* among its pre-bound arguments or its object bound-this lies in the nursery,
\* is answered NotInlined, never Error, with the graph unchanged.
C17_BoundFunctionRejections ==
    (/\ callee = "CallOrConstructBoundFunction" /\ status # "None"
     /\ \/ env.boundTarget # "function"
        \/ callInfo.constructing /\ ~env.boundTargetCtor
        \/ env.boundTargetNursery
        \/ \E i \in 1..Len(env.boundArgs) : env.boundArgs[i] = "nurseryObject"
        \/ env.boundThis = "nurseryObject")
        => /\ status = "NotInlined"
           /\ GraphUnchanged
           /\ marks = NoMarks

\* a tenured function target with a pre-bound argument in the nursery
C17_Witness ==
    /\ callee = "CallOrConstructBoundFunction" /\ inlineNative
    /\ env.boundTarget = "function" /\ ~env.boundTargetNursery
    /\ ~callInfo.constructing
    /\ env.boundThis # "nurseryObject"
    /\ Len(env.boundArgs) = 2 /\ env.boundArgs[2] = "nurseryObject"
    /\ status = "NotInlined" /\ why = "nursery"

\* C18: a second invocation of the engine on a call site it has Inlined adds
\* no second copy of an effectful instruction to the block: it is rejected,
\* or returns the subgraph of the first run.
C18_ReentryAddsNoEffect ==
    reentryNodes # -1
        => \A j \in (reentryNodes + 1)..Len(nodes) :
             Effectful(nodes[j].op)
                 => ~\E i \in (entryNodes + 1)..reentryNodes : nodes[i].op = nodes[j].op

\* C19: a run that returns NotInlined has added nothing to the observed
\* return type-set and recorded no type constraint.
C19_NotInlinedPersistsNothing ==
    status = "NotInlined" => persisted = {}

\* how often the run marked the call, or a part of it, implicitly used
DeadMarks == Cardinality({i \in 1..Len(log) : log[i] = "dead"})

\* C20: one run of the engine marks the call dead at most once, also when it
\* goes through a nested helper (inlineConstantCharCodeAt, the NewDenseArray
\* helpers).
C20_MarkedDeadAtMostOnce ==
    /\ DeadMarks <= 1
    /\ marks.fun <= 1 /\ marks.this <= 1 /\ marks.args <= 1

\* charCodeAt folded by the nested helper: marked there, and only there
C20_Witness ==
    /\ callee = "js_str_charCodeAt" /\ status = "Inlined"
    /\ Len(NewNodes) = 1 /\ NewNodes[1].op = "MConstant"
    /\ DeadMarks = 1
    /\ marks.args = 1

\* the parallel NewDenseArray helper, marking once
C20_WitnessNewDenseArray ==
    /\ callee = "intrinsic_NewDenseArray" /\ status = "Inlined"
    /\ DeadMarks = 1

\* how many loops over the call-site arguments the run entered
ArgLoops == Cardinality({i \in 1..Len(log) : log[i] = "argloop"})

\* C21: every run ends with exactly one of Inlined, NotInlined and Error, and
\* no run enters more than two loops over the arguments of the call site,
\* however many arguments there are.
C21_OneStatusBoundedLoops ==
    /\ status \in {"None", "Inlined", "NotInlined", "Error"}
    /\ status = "None" <=> callee = "none"
    /\ ArgLoops <= 2

\* Math.max over the largest operand list: one scan and one chain loop
C21_Witness ==
    /\ callee = "math_max" /\ status = "Inlined"
    /\ callInfo.argc = MaxArgc
    /\ Len(NewNodes) = MaxArgc - 1
    /\ ArgLoops = 2

\* UnsafePutElements over the largest number of groups
C21_WitnessPutElements ==
    /\ callee = "intrinsic_UnsafePutElements" /\ status = "Inlined"
    /\ callInfo.argc = 3 * MaxGroups
    /\ ArgLoops = 2

\* the MIRType of a value: of a call operand, or of an added instruction
TypeOf(v) ==
    IF v.k = "arg" THEN getArg(callInfo, v.i).type
    ELSE IF v.k = "this" THEN callInfo.thisArg.type
    ELSE nodes[v.i].type

\* the conversion instructions the run added
PowConversions ==
    {k \in (entryNodes + 1)..Len(nodes) : nodes[k].op \in {"MToInt32", "MToDouble"}}

\* C22: the value Math.pow pushes has the declared output type, and a
\* conversion is appended exactly when the computed value's type differs from
\* it: at most one, last, applied to a value of another type; without one the
\* computed value itself has the output type.
C22_PowOutputType ==
    (callee = "math_pow" /\ status = "Inlined")
        => LET top == stack[Len(stack)]
           IN  /\ TypeOf(top) = env.returnType
               /\ env.returnType \in {"Int32", "Double"}
               /\ Cardinality(PowConversions) <= 1
               /\ \A k \in PowConversions :
                    /\ k = Len(nodes)
                    /\ top = NodeRef(k)
                    /\ nodes[k].op = (IF env.returnType = "Int32" THEN "MToInt32" ELSE "MToDouble")
                    /\ TypeOf(nodes[k].ins[1]) # env.returnType

\* exponent 1 forwards an Int32 base, converted for a Double result
C22_Witness ==
    /\ callee = "math_pow" /\ status = "Inlined"
    /\ getArg(callInfo, 0).type = "Int32"
    /\ getArg(callInfo, 1) = NumConst("Double", 1, FALSE)
    /\ env.returnType = "Double"
    /\ Len(NewNodes) = 1
    /\ NewNodes[1].op = "MToDouble" /\ NewNodes[1].ins = <<ArgRef(0)>>

\* exponent 0.5 with an Int32 result: MPowHalf, then MToInt32
C22_WitnessPowHalf ==
    /\ callee = "math_pow" /\ status = "Inlined"
    /\ getArg(callInfo, 1) = NumConst("Double", 0, TRUE)
    /\ env.returnType = "Int32"
    /\ Len(NewNodes) = 2 /\ NewNodes[2].op = "MToInt32"

\* the candidate classes each class-test native hands to inlineHasClass
HasClassCandidates(native) ==
    IF native = "intrinsic_ObjectIsTypedObject"
    THEN {"OutlineTransparentTypedObject", "OutlineOpaqueTypedObject",
          "InlineTransparentTypedObject", "InlineOpaqueTypedObject"}
    ELSE IF native = "intrinsic_ObjectIsTransparentTypedObject"
    THEN {"OutlineTransparentTypedObject", "InlineTransparentTypedObject"}
    ELSE IF native = "intrinsic_ObjectIsOpaqueTypedObject"
    THEN {"OutlineOpaqueTypedObject", "InlineOpaqueTypedObject"}
    ELSE IF native = "intrinsic_TypeDescrIsSimpleType"
    THEN {"ScalarTypeDescr", "ReferenceTypeDescr"}
    ELSE IF native = "intrinsic_TypeDescrIsArrayType"
    THEN {"SizedArrayTypeDescr", "UnsizedArrayTypeDescr"}
    ELSE IF native = "intrinsic_TypeDescrIsSizedArrayType" THEN {"SizedArrayTypeDescr"}
    ELSE IF native = "intrinsic_TypeDescrIsUnsizedArrayType" THEN {"UnsizedArrayTypeDescr"}
    ELSE {}

\* the class tests the run added
HasClassTests == {k \in (entryNodes + 1)..Len(nodes) : nodes[k].op = "MHasClass"}

\* C23: a class-membership native with a known argument class pushes the
\* constant answer; with an unknown class it emits one class test per supplied
\* candidate class and none for an absent candidate slot.
C23_HasClassTestsCandidates ==
    (callee \in HasClassNatives /\ status = "Inlined")
        => LET cands == HasClassCandidates(callee)
               known == getKnownClass(getArg(callInfo, 0))
           IN  IF known # "none"
               THEN /\ Len(NewNodes) = 1
                    /\ NewNodes[1].op = "MConstant"
                    /\ NewNodes[1].ins = <<BooleanValue(known \in cands)>>
               ELSE /\ Cardinality(HasClassTests) = Cardinality(cands)
                    /\ {nodes[k].ins[2] : k \in HasClassTests} = {ClassRef(c) : c \in cands}

\* C24: regexp exec goes to the exec specializer exactly when the result of
\* the call escapes and to the test specializer otherwise, regexp test always
\* to the test specializer; both inline only a receiver of known class RegExp
\* with an argument that cannot be an object; and the execution stub is
\* ensured before the call is marked dead or anything is emitted.
C24_RegExpRouting ==
    (callee \in {"regexp_exec", "regexp_test"} /\ status # "None")
        => /\ status = "Inlined"
                => /\ Len(NewNodes) >= 1
                   /\ NewNodes[1].op = (IF callee = "regexp_exec" /\ env.resultEscapes
                                        THEN "MRegExpExec" ELSE "MRegExpTest")
                   /\ \A k \in 1..Len(NewNodes) :
                        NewNodes[k].op \in {"MRegExpExec", "MRegExpTest"} => k = 1
                   /\ callInfo.thisArg.type = "Object"
                   /\ callInfo.thisArg.hasTypes /\ callInfo.thisArg.knownClass = "RegExp"
                   /\ ~mightBeType(getArg(callInfo, 0), "Object")
           /\ \A i \in 1..Len(log) :
                log[i] \in {"dead", "add", "push"} => \E j \in 1..(i - 1) : log[j] = "stub"

\* exec whose result is dropped: inlined as a test
C24_Witness ==
    /\ callee = "regexp_exec" /\ status = "Inlined"
    /\ ~env.resultEscapes
    /\ NewNodes[1].op = "MRegExpTest"
    /\ log[1] = "stub"

\* exec whose result escapes
C24_WitnessExec ==
    /\ callee = "regexp_exec" /\ status = "Inlined"
    /\ env.resultEscapes
    /\ NewNodes[1].op = "MRegExpExec"

\* the positions in the log of the effects of one kind
LogPositions(what) == {i \in 1..Len(log) : log[i] = what}

\* the stores UnsafePutElements added
PutStores ==
    {k \in (entryNodes + 1)..Len(nodes) :
        nodes[k].op \in {"MStoreElement", "MStoreTypedArrayElement", "MStoreTypedObjectElement"}}

\* C25: UnsafePutElements adds and pushes the undefined result before the first
\* store of any group: the placeholder is the first instruction of the run,
\* the only value pushed, and it is pushed before the second instruction is
\* added, so every store is emitted at the final stack depth.
C25_PlaceholderBeforeStores ==
    (/\ callee = "intrinsic_UnsafePutElements"
     /\ status \in {"Inlined", "Error"}
     /\ PutStores # {})
        => /\ NewNodes[1].op = "MConstant"
           /\ NewNodes[1].ins = <<UndefinedValue>>
           /\ \A k \in PutStores : k > entryNodes + 1
           /\ Cardinality(LogPositions("push")) = 1
           /\ \A p \in LogPositions("push") :
                /\ Cardinality({a \in LogPositions("add") : a < p}) = 1
                /\ Len(stack) = entryDepth + 1
                /\ stack[Len(stack)] = NodeRef(entryNodes + 1)

\* two groups stored behind the placeholder
C25_Witness ==
    /\ callee = "intrinsic_UnsafePutElements" /\ status = "Inlined"
    /\ Cardinality(PutStores) = 2
    /\ NewNodes[1].ins = <<UndefinedValue>>
    /\ Len(stack) = entryDepth + 1

\* C26: charCodeAt that is not constant-folded and every inlined charAt emit
\* the index conversion, the string length, the bounds check and the character
\* access in that order, and the character access reads the string at the
\* bounds-checked index.
C26_BoundsCheckedCharAccess ==
    (/\ callee \in {"js_str_charCodeAt", "js_str_charAt"}
     /\ status = "Inlined"
     /\ ~(callee = "js_str_charCodeAt" /\ Len(NewNodes) = 1 /\ NewNodes[1].op = "MConstant"))
        => LET n(k) == NodeRef(entryNodes + k)
           IN  /\ [k \in 1..Len(NewNodes) |-> NewNodes[k].op]
                    = (IF callee = "js_str_charAt"
                       THEN <<"MToInt32", "MStringLength", "MBoundsCheck", "MCharCodeAt",
                              "MFromCharCode">>
                       ELSE <<"MToInt32", "MStringLength", "MBoundsCheck", "MCharCodeAt">>)
               /\ NewNodes[1].ins = <<ArgRef(0)>>
               /\ NewNodes[2].ins = <<ThisRef>>
               /\ NewNodes[3].ins = <<n(1), n(2)>>
               /\ NewNodes[4].ins = <<ThisRef, n(3)>>

C26_Witness ==
    /\ callee = "js_str_charAt" /\ status = "Inlined"
    /\ Len(NewNodes) = 5
    /\ NewNodes[4].ins = <<ThisRef, NodeRef(entryNodes + 3)>>

\* charCodeAt with a non-constant index
C26_WitnessCharCodeAt ==
    /\ callee = "js_str_charCodeAt" /\ status = "Inlined"
    /\ ~getArg(callInfo, 0).isConstant
    /\ Len(NewNodes) = 4

\* the integer-producing instruction of each rounding native
RoundingInstruction(native) ==
    IF native = "math_floor" THEN "MFloor"
    ELSE IF native = "math_ceil" THEN "MCeil"
    ELSE "MRound"

\* C27: Math.floor, Math.ceil and Math.round inline in exactly three cases:
\* Int32 argument and Int32 result give one MLimitedTruncate of the argument
\* and no rounding instruction, a floating argument and Int32 result give
\* MFloor / MCeil / MRound, a floating argument and Double result give
\* MMathFunction; every other combination is NotInlined.
C27_RoundingCases ==
    (callee \in {"math_floor", "math_ceil", "math_round"} /\ status # "None")
        => LET argType == getArg(callInfo, 0).type
               accepted == inlineNative /\ callInfo.argc = 1 /\ ~callInfo.constructing
               op == IF argType = "Int32" /\ env.returnType = "Int32" THEN "MLimitedTruncate"
                     ELSE IF IsFloatingPointType(argType) /\ env.returnType = "Int32"
                     THEN RoundingInstruction(callee)
                     ELSE IF IsFloatingPointType(argType) /\ env.returnType = "Double"
                     THEN "MMathFunction"
                     ELSE "none"
           IN  IF accepted /\ op # "none"
               THEN /\ status = "Inlined"
                    /\ Len(NewNodes) = 1
                    /\ NewNodes[1].op = op
                    /\ NewNodes[1].ins = <<ArgRef(0)>>
                    /\ stack[Len(stack)] = NodeRef(entryNodes + 1)
               ELSE status = "NotInlined" /\ GraphUnchanged

C27_Witness ==
    /\ callee = "math_round" /\ status = "Inlined"
    /\ getArg(callInfo, 0).type = "Int32" /\ env.returnType = "Int32"
    /\ NewNodes[1].op = "MLimitedTruncate"

\* an Int32 argument with a Double result is not inlined
C27_WitnessInt32ToDouble ==
    /\ callee = "math_floor" /\ status = "NotInlined" /\ inlineNative
    /\ callInfo.argc = 1 /\ ~callInfo.constructing
    /\ getArg(callInfo, 0).type = "Int32" /\ env.returnType = "Double"

\* a Float32 argument with an Int32 result
C27_WitnessFloat32 ==
    /\ callee = "math_ceil" /\ status = "Inlined"
    /\ getArg(callInfo, 0).type = "Float32"
    /\ NewNodes[1].op = "MCeil"

\* C28: an inlined bound function is a call of the bound target with the bound
\* this and, as arguments, the pre-bound arguments in order followed by the
\* arguments of the call site in order; when the two counts add up to more
\* than ARGS_LENGTH_MAX the answer is NotInlined and the graph is unchanged.
C28_BoundCallArguments ==
    (callee = "CallOrConstructBoundFunction" /\ status # "None")
        => LET nb == env.boundArgCount
               n(k) == NodeRef(entryNodes + k)
           IN  /\ status = "Inlined"
                    => /\ Len(NewNodes) >= nb + 3
                       /\ NewNodes[1].op = "MConstant"
                       /\ NewNodes[1].ins = <<[k |-> "boundTarget", i |-> 0]>>
                       /\ NewNodes[2].op = "MConstant"
                       /\ NewNodes[2].ins = <<[k |-> "boundThis", i |-> 0]>>
                       /\ \A i \in 1..nb :
                            /\ NewNodes[2 + i].op = "MConstant"
                            /\ NewNodes[2 + i].ins = <<[k |-> "boundArg", i |-> i - 1]>>
                       /\ NewNodes[nb + 3].op = "MCall"
                       /\ NewNodes[nb + 3].ins
                            = <<n(1), n(2)>> \o [i \in 1..nb |-> n(2 + i)]
                                \o [i \in 1..callInfo.argc |-> ArgRef(i - 1)]
                       /\ Len(NewNodes[nb + 3].ins) = 2 + nb + callInfo.argc
               /\ nb + callInfo.argc > ARGS_LENGTH_MAX
                    => (status = "NotInlined" /\ GraphUnchanged /\ marks = NoMarks)

\* two pre-bound arguments in front of two call-site arguments
C28_Witness ==
    /\ callee = "CallOrConstructBoundFunction" /\ status = "Inlined"
    /\ env.boundArgCount = 2 /\ callInfo.argc = 2
    /\ NewNodes[5].op = "MCall"
    /\ Len(NewNodes[5].ins) = 6

\* more than ARGS_LENGTH_MAX arguments in all
C28_WitnessTooMany ==
    /\ callee = "CallOrConstructBoundFunction" /\ inlineNative
    /\ env.boundArgCount + callInfo.argc = ARGS_LENGTH_MAX + 1
    /\ status = "NotInlined" /\ why = "arity"

\* C29: the reserved-slot get and set are NotInlined, with nothing added,
\* unless the slot argument is an Int32 constant; an inlined get is the load
\* followed by a type barrier on the loaded value, the barrier being the
\* value left on the stack, for every observed return type.
ReservedSlotNatives == {"intrinsic_UnsafeGetReservedSlot", "intrinsic_UnsafeSetReservedSlot"}

ConstantSlot ==
    /\ callInfo.argc >= 2
    /\ getArg(callInfo, 1).type = "Int32"
    /\ getArg(callInfo, 1).isConstant

C29_ReservedSlotConstantAndBarrier ==
    (callee \in ReservedSlotNatives /\ status # "None")
        => /\ ~ConstantSlot => (status = "NotInlined" /\ GraphUnchanged /\ marks = NoMarks)
           /\ (callee = "intrinsic_UnsafeGetReservedSlot" /\ status = "Inlined")
                => /\ Len(NewNodes) = 2
                   /\ NewNodes[1].op = "MLoadFixedSlot"
                   /\ NewNodes[1].ins = <<ArgRef(0), ConstVal(getArg(callInfo, 1).num)>>
                   /\ NewNodes[2].op = "MTypeBarrier"
                   /\ NewNodes[2].ins = <<NodeRef(entryNodes + 1)>>
                   /\ Len(stack) = entryDepth + 1
                   /\ stack[Len(stack)] = NodeRef(entryNodes + 2)

\* a get of a constant slot whose observed result is a single type
C29_Witness ==
    /\ callee = "intrinsic_UnsafeGetReservedSlot" /\ status = "Inlined"
    /\ env.returnType = "Int32"
    /\ Len(NewNodes) = 2 /\ NewNodes[2].op = "MTypeBarrier"

\* a set whose slot is an Int32 that is not a constant
C29_WitnessVariableSlot ==
    /\ callee = "intrinsic_UnsafeSetReservedSlot" /\ inlineNative
    /\ callInfo.argc = 3 /\ ~callInfo.constructing
    /\ getArg(callInfo, 0).type = "Object" /\ env.returnType = "Undefined"
    /\ getArg(callInfo, 1).type = "Int32" /\ ~getArg(callInfo, 1).isConstant
    /\ status = "NotInlined" /\ why = "constant"

\* a set of a constant slot is inlined
C29_WitnessSet ==
    /\ callee = "intrinsic_UnsafeSetReservedSlot" /\ status = "Inlined"
    /\ ConstantSlot /\ Len(NewNodes) >= 1 /\ NewNodes[1].op = "MStoreFixedSlot"

\* the natives answered by inlineForceSequentialOrInParallelSection
ForceSequentialNatives ==
    {"intrinsic_ShouldForceSequential", "intrinsic_InParallelSection",
     "testingFunc_inParallelSection"}

\* the run pushed the constant true and nothing else
PushedTrue ==
    /\ Len(NewNodes) = 1
    /\ NewNodes[1].op = "MConstant"
    /\ NewNodes[1].ins = <<BooleanValue(TRUE)>>
    /\ stack = [i \in 1..entryDepth |-> EntryValue(i)] \o <<NodeRef(entryNodes + 1)>>

\* C30 as stated: the execution mode alone decides; in parallel mode the
\* ShouldForceSequential / InParallelSection specializer pushes true and is
\* Inlined, in every other mode it is NotInlined with the graph unchanged, and
\* NewDenseArray outside parallel mode is NotInlined.
C30_ModeAloneAsStated ==
    (inlineNative /\ status # "None")
        => /\ callee \in ForceSequentialNatives
                => IF executionMode = "ParallelExecution"
                   THEN status = "Inlined" /\ PushedTrue
                   ELSE status = "NotInlined" /\ GraphUnchanged
           /\ (callee = "intrinsic_NewDenseArray" /\ executionMode # "ParallelExecution")
                => status = "NotInlined"

\* C30 (amended): for a call that is not constructing the execution mode decides
\* the ShouldForceSequential / InParallelSection specializer: parallel mode
\* pushes the constant true and is Inlined, every other mode is NotInlined with
\* the graph unchanged; a constructing call is NotInlined with the graph
\* unchanged in every mode; NewDenseArray outside parallel mode is NotInlined
\* with the graph unchanged.
C30_ModeDecides ==
    (inlineNative /\ status # "None")
        => /\ callee \in ForceSequentialNatives
                => IF executionMode = "ParallelExecution" /\ ~callInfo.constructing
                   THEN status = "Inlined" /\ PushedTrue
                   ELSE status = "NotInlined" /\ GraphUnchanged /\ marks = NoMarks
           /\ (callee = "intrinsic_NewDenseArray" /\ executionMode # "ParallelExecution")
                => (status = "NotInlined" /\ GraphUnchanged /\ marks = NoMarks)

C30_Witness ==
    /\ callee = "intrinsic_ShouldForceSequential" /\ executionMode = "ParallelExecution"
    /\ status = "Inlined" /\ PushedTrue

\* the same call compiled for sequential execution
C30_WitnessSequential ==
    /\ callee = "intrinsic_InParallelSection" /\ executionMode = "SequentialExecution"
    /\ inlineNative /\ ~callInfo.constructing
    /\ status = "NotInlined" /\ why = "mode"

\* a NewDenseArray call that parallel mode would inline, in sequential mode
C30_WitnessNewDenseArray ==
    /\ callee = "intrinsic_NewDenseArray" /\ executionMode = "SequentialExecution"
    /\ inlineNative /\ ~callInfo.constructing /\ callInfo.argc = 1
    /\ getArg(callInfo, 0).type = "Int32"
    /\ env.returnType = "Object" /\ env.returnObjectCount = 1 /\ env.template = "match"
    /\ status = "NotInlined" /\ why = "mode"

\* a constructing call compiled for parallel execution
C30_WitnessConstructing ==
    /\ callee \in ForceSequentialNatives /\ executionMode = "ParallelExecution"
    /\ inlineNative /\ callInfo.constructing
    /\ status = "NotInlined" /\ why = "constructing"


\* C31: compiled for a mode other than parallel execution, with an Int32
\* expected return type, ForkJoinGetSlice is Inlined as the identity: its
\* argument 0 is pushed and no instruction is added.
C31_ForkJoinGetSliceIdentity ==
    (/\ callee = "intrinsic_ForkJoinGetSlice" /\ inlineNative /\ status # "None"
     /\ executionMode # "ParallelExecution" /\ env.returnType = "Int32")
        => /\ status = "Inlined"
           /\ Len(nodes) = entryNodes
           /\ stack = [i \in 1..entryDepth |-> EntryValue(i)] \o <<ArgRef(0)>>


\* C32: Array(n) with a single argument is Inlined only if the argument is an
\* Int32 constant n with 0 <= n < NELEMENTS_LIMIT, n the length of the template
\* object and n <= EagerAllocationMaxLength; a negative constant length is
\* NotInlined with the graph unchanged.
C32_ArrayLengthGuards ==
    (callee = "js_Array" /\ inlineNative /\ status # "None" /\ callInfo.argc = 1)
        => LET arg == getArg(callInfo, 0)
           IN  /\ status = "Inlined"
                    => /\ arg.type = "Int32" /\ arg.isConstant
                       /\ 0 <= arg.num /\ arg.num < NELEMENTS_LIMIT
                       /\ arg.num = env.templateLength
                       /\ arg.num <= EagerAllocationMaxLength
               /\ (arg.type = "Int32" /\ arg.isConstant /\ arg.num < 0)
                    => (status = "NotInlined" /\ GraphUnchanged /\ marks = NoMarks)

C32_Witness ==
    /\ callee = "js_Array" /\ callInfo.argc = 1 /\ status = "Inlined"
    /\ getArg(callInfo, 0).num = 3 /\ env.templateLength = 3

\* Array(-1) where a template object exists
C32_WitnessNegative ==
    /\ callee = "js_Array" /\ inlineNative /\ callInfo.argc = 1
    /\ getArg(callInfo, 0).isConstant /\ getArg(callInfo, 0).num = -1
    /\ env.template = "match"
    /\ status = "NotInlined" /\ why = "range"

\* Array(2049) with a template object of that length
C32_WitnessLarge ==
    /\ callee = "js_Array" /\ inlineNative /\ callInfo.argc = 1
    /\ getArg(callInfo, 0).isConstant /\ getArg(callInfo, 0).num = 2049
    /\ env.template = "match" /\ env.templateLength = 2049
    /\ status = "NotInlined" /\ why = "range"


\* the store instruction of the kind that validated the group at base
PutGroupStore(base) ==
    LET obj == getArg(callInfo, base)
        elem == getArg(callInfo, base + 2)
    IN  IF obj.access = "dense" /\ ~elem.writeBarrier THEN "MStoreElement"
        ELSE IF obj.access = "typedArray" THEN "MStoreTypedArrayElement"
        ELSE IF obj.access = "typedObject" THEN "MStoreTypedObjectElement"
        ELSE "none"

C33_WitnessTypedArray ==
    /\ callee = "intrinsic_UnsafePutElements" /\ status = "Inlined"
    /\ callInfo.argc = 3 /\ getArg(callInfo, 0).access = "typedArray"
    /\ Len(NewNodes) = 2 /\ NewNodes[2].op = "MStoreTypedArrayElement"

\* ------------------------------------------------ MediaDecoder properties

\* C34: PLAY_STATE_SHUTDOWN is absorbing: once mPlayState is SHUTDOWN, no
\* method of the decoder (Play, Pause, Seek, SeekingStopped,
\* SeekingStoppedAtEnd, MetadataLoaded, PlaybackEnded, SetDormantIfNecessary,
\* ChangeState or any other) changes mPlayState again.
C34_ShutdownAbsorbing ==
    [][decoder.mPlayState = "PLAY_STATE_SHUTDOWN"
       => decoder'.mPlayState = "PLAY_STATE_SHUTDOWN"]_vars

\* a state machine exists, the decoder is in SHUTDOWN, and ChangeState(PLAYING)
\* was the last call: SHUTDOWN is entered by Shutdown or ChangeState(SHUTDOWN)
\* only, so the call ran in SHUTDOWN
C34_Witness ==
    /\ decoder.mPlayState = "PLAY_STATE_SHUTDOWN"
    /\ decoder.mDecoderStateMachine
    /\ lastCall.op = "ChangeState" /\ lastCall.aState = "PLAY_STATE_PLAYING"

\* Seek ran in SHUTDOWN
C34_WitnessSeek ==
    /\ decoder.mPlayState = "PLAY_STATE_SHUTDOWN"
    /\ decoder.mDecoderStateMachine
    /\ lastCall.op = "Seek"

\* a state-machine notification ran in SHUTDOWN without Shutdown() before it
C34_WitnessNotShuttingDown ==
    /\ decoder.mPlayState = "PLAY_STATE_SHUTDOWN"
    /\ ~decoder.mShuttingDown
    /\ lastCall.op \in {"SeekingStopped", "SeekingStoppedAtEnd", "MetadataLoaded", "PlaybackEnded"}

\* C35 as stated: in SEEKING every Play() leaves mPlayState alone and records
\* PLAYING in mNextState.
C35_PlayAlwaysRecorded ==
    [][decoder.mPlayState = "PLAY_STATE_SEEKING" /\ lastCall'.op = "Play"
       => /\ decoder'.mPlayState = "PLAY_STATE_SEEKING"
          /\ decoder'.mNextState = "PLAY_STATE_PLAYING"]_vars

\* C35: while mPlayState is SEEKING, Pause() changes nothing but mNextState,
\* which becomes PAUSED; Play() changes nothing but mNextState, which becomes
\* PLAYING, unless the decoder is paused for a playback rate of 0, and then
\* Play() changes nothing at all; SeekingStopped() with no seek target
\* pending and no shutdown makes mPlayState the value mNextState had.
C35_RequestsRecordedWhileSeeking ==
    [][decoder.mPlayState = "PLAY_STATE_SEEKING"
       => /\ lastCall'.op = "Pause"
             => Enter(decoder') = [Enter(decoder) EXCEPT !.mNextState = "PLAY_STATE_PAUSED"]
          /\ lastCall'.op = "Play" /\ ~decoder.mPausedForPlaybackRateNull
             => Enter(decoder') = [Enter(decoder) EXCEPT !.mNextState = "PLAY_STATE_PLAYING"]
          /\ lastCall'.op = "Play" /\ decoder.mPausedForPlaybackRateNull
             => Enter(decoder') = Enter(decoder)
          /\ /\ lastCall'.op = "SeekingStopped"
             /\ ~IsValid(decoder.mRequestedSeekTarget)
             /\ ~decoder.mShuttingDown
             => decoder'.mPlayState = decoder.mNextState]_vars

\* Play() ran in SEEKING and PLAYING is recorded
C35_Witness ==
    /\ lastCall.op = "Play"
    /\ decoder.mPlayState = "PLAY_STATE_SEEKING"
    /\ decoder.mNextState = "PLAY_STATE_PLAYING"
    /\ ~decoder.mPausedForPlaybackRateNull

\* Play() ran in SEEKING with a playback rate of 0 and PAUSED stays recorded
C35_WitnessPlaybackRateNull ==
    /\ lastCall.op = "Play"
    /\ decoder.mPlayState = "PLAY_STATE_SEEKING"
    /\ decoder.mNextState = "PLAY_STATE_PAUSED"
    /\ decoder.mPausedForPlaybackRateNull

\* Pause() ran in SEEKING
C35_WitnessPause ==
    /\ lastCall.op = "Pause"
    /\ decoder.mPlayState = "PLAY_STATE_SEEKING"
    /\ decoder.mNextState = "PLAY_STATE_PAUSED"

\* SeekingStopped() completed a seek and the decoder plays
C35_WitnessSeekingStopped ==
    /\ lastCall.op = "SeekingStopped"
    /\ decoder.mPlayState = "PLAY_STATE_PLAYING"
    /\ \E i \in 1..Len(decoder.ownerCalls) : decoder.ownerCalls[i] = "SeekCompleted"

\* the Seek calls the running method made to the state machine
SeeksHanded(d) == SelectSeq(d.stateMachineCalls, LAMBDA c : c.call = "Seek")

\* the running method called the owner's SeekCompleted or PlaybackEnded
ToldOwnerSeekEnded(d) ==
    \E i \in 1..Len(d.ownerCalls) : d.ownerCalls[i] \in {"SeekCompleted", "PlaybackEnded"}

\* C36: a Seek() issued while mPlayState is SEEKING leaves mPlayState SEEKING
\* and makes its time the pending target; a SeekingStopped() or
\* SeekingStoppedAtEnd() that finds a pending target in SEEKING stays in
\* SEEKING, calls the state machine's Seek exactly once, with that target,
\* resets the pending target and calls neither SeekCompleted nor
\* PlaybackEnded on the owner.
C36_SeekDuringSeekNotLost ==
    [][decoder.mPlayState = "PLAY_STATE_SEEKING"
       => /\ lastCall'.op = "Seek"
             => /\ decoder'.mPlayState = "PLAY_STATE_SEEKING"
                /\ decoder'.mRequestedSeekTarget = SeekTarget(lastCall'.aTime)
                /\ SeeksHanded(decoder') = <<>>
          /\ /\ lastCall'.op \in {"SeekingStopped", "SeekingStoppedAtEnd"}
             /\ IsValid(decoder.mRequestedSeekTarget)
             => /\ decoder'.mPlayState = "PLAY_STATE_SEEKING"
                /\ SeeksHanded(decoder') =
                       <<[call |-> "Seek", mTime |-> decoder.mRequestedSeekTarget.mTime]>>
                /\ ~IsValid(decoder'.mRequestedSeekTarget)
                /\ ~ToldOwnerSeekEnded(decoder')]_vars

\* SeekingStopped() found the target of a later Seek(MaxTime) and handed it
\* to the state machine
C36_Witness ==
    /\ lastCall.op = "SeekingStopped"
    /\ decoder.mPlayState = "PLAY_STATE_SEEKING"
    /\ decoder.mOwner
    /\ SeeksHanded(decoder) = <<[call |-> "Seek", mTime |-> MaxTime]>>

\* the same for SeekingStoppedAtEnd()
C36_WitnessAtEnd ==
    /\ lastCall.op = "SeekingStoppedAtEnd"
    /\ decoder.mPlayState = "PLAY_STATE_SEEKING"
    /\ decoder.mOwner
    /\ SeeksHanded(decoder) = <<[call |-> "Seek", mTime |-> MaxTime]>>

\* Seek() ran during a seek the state machine has: the target waits
C36_WitnessSeek ==
    /\ lastCall.op = "Seek"
    /\ decoder.mPlayState = "PLAY_STATE_SEEKING"
    /\ decoder.mDecoderStateMachine
    /\ decoder.mRequestedSeekTarget = SeekTarget(lastCall.aTime)

\* the decoder is dormant
Dormant(d) == d.mPlayState = "PLAY_STATE_LOADING" /\ d.mIsDormant

\* the running method asked the state machine to play or to seek
StateMachineStarted(d) ==
    \E i \in 1..Len(d.stateMachineCalls) : d.stateMachineCalls[i].call \in {"Play", "Seek"}

C37_WitnessPlay ==
    /\ lastCall.op = "Play"
    /\ Dormant(decoder)
    /\ decoder.mNextState = "PLAY_STATE_PLAYING"
    /\ ~decoder.mPausedForPlaybackRateNull

\* Play() ran on a dormant decoder paused for a playback rate of 0
C37_WitnessPlaybackRateNull ==
    /\ lastCall.op = "Play"
    /\ Dormant(decoder)
    /\ decoder.mNextState = "PLAY_STATE_PAUSED"
    /\ decoder.mPausedForPlaybackRateNull

\* ChangeState(PLAYING), PlaybackEnded() or SeekingStopped() ran on a dormant decoder
C37_WitnessIgnored ==
    /\ \/ lastCall.op \in {"PlaybackEnded", "SeekingStopped"}
       \/ lastCall.op = "ChangeState" /\ lastCall.aState = "PLAY_STATE_PLAYING"
    /\ Dormant(decoder)

\* MetadataLoaded() ended a dormancy in which PLAYING was recorded
C37_WitnessMetadataLoaded ==
    /\ lastCall.op = "MetadataLoaded"
    /\ decoder.mPlayState = "PLAY_STATE_SEEKING"
    /\ decoder.mNextState = "PLAY_STATE_PLAYING"
    /\ SeeksHanded(decoder) = <<[call |-> "Seek", mTime |-> MaxTime]>>

\* the methods that test mShuttingDown first
GuardedByShuttingDown ==
    {"Shutdown", "NetworkError", "DecodeError", "ResetConnectionState", "MetadataLoaded",
     "SeekingStarted", "SeekingStopped", "SeekingStoppedAtEnd", "PlaybackEnded",
     "PlaybackPositionChanged"}

\* C38: after Shutdown() has run, a call of Shutdown, NetworkError,
\* DecodeError, ResetConnectionState, MetadataLoaded, SeekingStarted,
\* SeekingStopped, SeekingStoppedAtEnd, PlaybackEnded or
\* PlaybackPositionChanged changes no member of the decoder and calls neither
\* the owner nor the state machine: the state machine is not shut down again,
\* the resource not closed again, the decoder not unregistered again.
C38_NoOpAfterShutdown ==
    [][decoder.mShuttingDown /\ lastCall'.op \in GuardedByShuttingDown
       => decoder' = Enter(decoder)]_vars

\* a loaded decoder was shut down and Shutdown() ran again, calling nothing
C38_Witness ==
    /\ lastCall.op = "Shutdown"
    /\ decoder.mShuttingDown
    /\ decoder.stateMachineCalls = <<>>
    /\ decoder.stateMachineShutdowns = 1
    /\ decoder.resourceCloses = 1
    /\ decoder.unregistrations = 1

\* a notification of the state machine or the resource ran after Shutdown()
C38_WitnessNotification ==
    /\ lastCall.op \in GuardedByShuttingDown \ {"Shutdown"}
    /\ decoder.mShuttingDown
    /\ decoder.ownerCalls = <<>>
    /\ decoder.stateMachineShutdowns = 1

\* C39: whenever a decoded stream exists, after every method its
\* mHaveBlockedForPlayState is (mPlayState # PLAY_STATE_PLAYING) and the
\* blocker count the decoder gave it for the play state is 1 when the flag
\* is set and 0 when it is not.
C39_BlockedForPlayState ==
    decoder.mDecodedStream
    => /\ decoder.mHaveBlockedForPlayState = (decoder.mPlayState # "PLAY_STATE_PLAYING")
       /\ decoder.playStateBlockers = IF decoder.mHaveBlockedForPlayState THEN 1 ELSE 0

\* ChangeState took the block of a decoded stream away: the decoder plays
C39_Witness ==
    /\ decoder.mDecodedStream
    /\ decoder.mPlayState = "PLAY_STATE_PLAYING"
    /\ decoder.playStateBlockers = 0
    /\ lastCall.op \in {"Play", "ChangeState", "SeekingStopped", "MetadataLoaded"}

\* a playing decoder with a decoded stream was paused: the block is back
C39_WitnessBlockedAgain ==
    /\ decoder.mDecodedStream
    /\ decoder.mPlayState = "PLAY_STATE_PAUSED"
    /\ decoder.playStateBlockers = 1
    /\ lastCall.op = "Pause"

\* the stream was recreated under a playing decoder, and under a dormant one
C39_WitnessRecreated ==
    /\ decoder.mDecodedStream
    /\ lastCall.op \in {"RecreateDecodedStream", "AddOutputStream"}
    /\ \/ decoder.mPlayState = "PLAY_STATE_PLAYING"
       \/ Dormant(decoder)

====
